---- MODULE Spec2Model ----
(***************************************************************************)
(* Cache and search subsystem of repo-explorer (src/src/config.ts, the     *)
(* cache half of the file): isCacheValid, buildRepoCache, saveRepoCache,   *)
(* loadRepoCachePart and searchCodeWithCache, as one state machine.        *)
(*                                                                         *)
(* Every `await` of the code is a point where the event loop may run       *)
(* another callback, so each awaited I/O call is one action.  The working  *)
(* tree and its HEAD are changed by the environment (git commit/pull,      *)
(* deletion, permission loss), and the process may crash at any point.     *)
(***************************************************************************)
EXTENDS Integers, Sequences, FiniteSets, TLC

\* ---------------------------------------------------------------- bounds
MaxCommits == 1    \* commits the environment makes in one run of the model
MaxFaults == 1     \* working trees the environment deletes or makes unreadable
MaxBuilds == 2     \* rebuilds scheduled in one run of the model
MaxFired == 1      \* scheduled rebuilds whose timer fires (Spec only)

\* ------------------------------------------------------------- constants
\* The registry in Object.keys order (one category, two repositories).
RepoOrder == <<"r1", "r2">>
Repos == {RepoOrder[k] : k \in 1..Len(RepoOrder)}

\* The four documents saveRepoCache writes.
Docs == {"metadata", "structure", "searchIndex", "codeStructure"}
IndexDocs == Docs \ {"metadata"}

\* What a repository filter can select: every repository, or one of them.
Selections == {RepoOrder} \cup {<<r>> : r \in Repos}

NoVer == 0 - 1     \* "no content": nothing was read / nothing on disk
BuildIds == 1..MaxBuilds

\* A persisted document: absent, truncated (opened for writing, data not yet
\* written: JSON.parse of it throws), or complete.  A complete document
\* carries the revision of the working tree its content was read from;
\* metadata.json also carries lastCommitHash (its stats are computed from the
\* structure, so `from` is the structure's).
Absent == [st |-> "absent", from |-> NoVer, hash |-> NoVer]
Partial == [st |-> "partial", from |-> NoVer, hash |-> NoVer]
Written(v, h) == [st |-> "ok", from |-> v, hash |-> h]

\* A cache directory in which no save has finished.
NoSave == [d \in Docs |-> Absent]

VARIABLES
    tree,      \* tree[r]: "ok", "deleted" or "unreadable" (directory enumeration fails)
    head,      \* head[r]: the revision checked out in the working tree
    docs,      \* docs[r][d]: the persisted cache documents
    s,         \* the search request (searchCodeWithCache), in flight or answered
    builds,    \* builds[b]: the rebuilds scheduled by setTimeout
    nextBuild, \* the next unused build id
    rebuilt,   \* rebuilt[r]: a rebuild completed since the last revision change
    lastDone,  \* lastDone[r]: the four documents of the save of r that finished last
    ld,        \* a loadRepoCache / loadRepoCachePart call, in flight or answered
    fx,        \* a fixture repository with its index and the answers of both search paths
    rq,        \* a tool request (search_code or repo_status) against the registry
    sq,        \* a getEnhancedRepoStatus call, in flight or answered
    sc,        \* a scanFileStructure call on a tree of paths, in flight or ended
    cb         \* the text after a class header, and the class body extracted from it

vars == <<tree, head, docs, s, builds, nextBuild, rebuilt, lastDone, ld, fx, rq, sq, sc, cb>>

\* ------------------------------------------------------ repository content
\* The query of the model is one fixed pattern.  Revision 0 of a repository
\* holds it as a whole identifier; the commits rename that identifier to a
\* longer one, so later revisions hold the pattern only inside an identifier.
\* Every revision holds it as a literal substring of a line.
ExactHit(r, v) == v = 0                       \* searchIndex.exactTerms[pattern]
FuzzyHit(r, v) == v /= NoVer                  \* regExp.test(term) for a key of terms
LiteralHit(r, v) == v /= NoVer                \* lines[i].includes(pattern)

\* One match group of the result list: the repository, the path that
\* produced it, the revision of the index used (NoVer on the direct scan)
\* and the revision of the live file the context lines were read from.
Group(r, via, idx, live) == [repo |-> r, via |-> via, idx |-> idx, live |-> live]

\* ------------------------------------------------------------ initial state
IdleSearch ==
    [pc |-> "idle", sel |-> <<>>, i |-> 0, results |-> <<>>,
     md |-> Absent, git |-> "none", hd |-> NoVer, valid |-> FALSE,
     ix |-> Absent, files |-> NoVer, fell |-> {}, unusable |-> {}]

NoBuild ==
    [pc |-> "none", repo |-> RepoOrder[1], fresh |-> FALSE,
     sFrom |-> NoVer, iFrom |-> NoVer, cFrom |-> NoVer, hash |-> NoVer,
     w |-> [d \in Docs |-> "todo"]]

\* No loadRepoCache call has been made.
Unread == [st |-> "unread", from |-> NoVer, hash |-> NoVer]

IdleLoad ==
    [pc |-> "idle", fn |-> "none", repo |-> RepoOrder[1], part |-> "metadata",
     dir |-> FALSE, got |-> [d \in Docs |-> Unread], result |-> "none"]

\* No fixture repository is under test.
NoFixture == [pc |-> "none"]

\* An argument the request does not carry (undefined).
NoArg == ""

\* No tool request has been received.
NoRequest ==
    [pc |-> "none", tool |-> "none", category |-> NoArg, repo |-> NoArg, disk |-> {},
     valid |-> {}, todo |-> <<>>, read |-> {}, scheduled |-> {}, keys |-> {},
     isError |-> FALSE]

\* The keys of the object getEnhancedRepoStatus returns: those of the live
\* status (lines 875-909) and those taken from the cache (lines 916-926).
LiveFields == {"exists", "path", "branch", "lastCommit", "modified", "status"}
CachedFields == {"stats", "packageInfo", "codeInsights"}

\* No getEnhancedRepoStatus call has been made.
IdleStatus ==
    [pc |-> "idle", repo |-> RepoOrder[1], md |-> Unread, checked |-> FALSE, valid |-> FALSE,
     got |-> [d \in {"metadata", "codeStructure"} |-> Unread], fields |-> {},
     docs0 |-> NoSave]

\* No scanFileStructure call on a tree of paths is under test.
NoScan == [pc |-> "none"]

\* No class header is under analysis.
NoClass == [pc |-> "none"]

Init ==
    /\ tree = [r \in Repos |-> "ok"]
    /\ cb = NoClass
    /\ head = [r \in Repos |-> 0]
    /\ docs = [r \in Repos |-> [d \in Docs |-> Absent]]
    /\ s = IdleSearch
    /\ builds = [b \in BuildIds |-> NoBuild]
    /\ nextBuild = 1
    /\ rebuilt = [r \in Repos |-> FALSE]
    /\ lastDone = [r \in Repos |-> NoSave]
    /\ ld = IdleLoad
    /\ rq = NoRequest
    /\ sq = IdleStatus
    /\ sc = NoScan
    /\ fx = NoFixture

\* -------------------------------------------------------------- environment
RECURSIVE Commits(_)
Commits(k) == IF k = 0 THEN 0 ELSE head[RepoOrder[k]] + Commits(k - 1)

Faults == Cardinality({r \in Repos : tree[r] /= "ok"})

\* A new commit is checked out in the working tree (git commit, git pull).
Commit(r) ==
    /\ tree[r] = "ok"
    /\ Commits(Len(RepoOrder)) < MaxCommits
    /\ head' = [head EXCEPT ![r] = @ + 1]
    /\ rebuilt' = [rebuilt EXCEPT ![r] = FALSE]
    /\ UNCHANGED <<tree, docs, s, builds, nextBuild, lastDone, ld, fx, rq, sq, sc, cb>>

\* The working tree is deleted from disk.
DeleteTree(r) ==
    /\ tree[r] = "ok"
    /\ Faults < MaxFaults
    /\ tree' = [tree EXCEPT ![r] = "deleted"]
    /\ UNCHANGED <<head, docs, s, builds, nextBuild, rebuilt, lastDone, ld, fx, rq, sq, sc, cb>>

\* A directory of the working tree becomes unreadable (EACCES): the path
\* still exists and git still answers, but enumerating the files fails.
BreakTree(r) ==
    /\ tree[r] = "ok"
    /\ Faults < MaxFaults
    /\ tree' = [tree EXCEPT ![r] = "unreadable"]
    /\ UNCHANGED <<head, docs, s, builds, nextBuild, rebuilt, lastDone, ld, fx, rq, sq, sc, cb>>

\* ------------------------------------------------------------- isCacheValid
\* A variant of isCacheValid whose catch block does not answer false when git
\* fails: the stored hash is then compared with the revision on disk.
CacheValidResultFailOpen(md, tr, hd) ==
    IF md.st = "absent" THEN FALSE
    ELSE IF md.st = "partial" THEN FALSE
    ELSE md.hash = hd

\* isCacheValid, lines 304-320: the decision from the metadata document read,
\* the state of the working tree when git is asked, and the HEAD it reports.
CacheValidResult(md, tr, hd) ==
    IF md.st = "absent" THEN FALSE           \* pathExists(metadataPath) is false
    ELSE IF md.st = "partial" THEN FALSE     \* JSON.parse throws: catch, false
    ELSE IF tr = "deleted" THEN FALSE        \* simpleGit/revparse throws: catch, false
    ELSE md.hash = hd                        \* lastCommitHash === currentHash

\* isCacheValid with no other callback running between its awaits.
IsCacheValid(r) == CacheValidResult(docs[r]["metadata"], tree[r], head[r])

\* ------------------------------------------------------ searchCodeWithCache
ReposIn(res) == {res[k].repo : k \in 1..Len(res)}

\* Rebuilds the last search has scheduled for r (its setTimeout calls).
Scheduled(r) == Cardinality({b \in BuildIds : builds[b].fresh /\ builds[b].repo = r})

\* The request is being processed.
Searching == s.pc \notin {"idle", "returned", "aborted"}

\* What the request answered: `return results` (line 1140), or the `return []`
\* of the outer catch (line 1143).
Answer == IF s.pc = "returned" THEN s.results ELSE <<>>

\* The locals of one iteration of `for (const repo of repos)`.
Locals(cur) ==
    [cur EXCEPT !.md = Absent, !.git = "none", !.hd = NoVer, !.valid = FALSE,
                !.ix = Absent, !.files = NoVer]

\* The end of one iteration: the next repository, or the return after the
\* last one.  cur is the request with this iteration's effects.
NextRepo(cur) ==
    IF cur.i < Len(cur.sel)
    THEN [Locals(cur) EXCEPT !.pc = "exists", !.i = @ + 1]
    ELSE [Locals(cur) EXCEPT !.pc = "returned"]

\* A search_code request arrives (lines 950-963): the repositories the
\* filters select, in registry order.
StartSearch(sel) ==
    /\ ~Searching
    /\ s' = [IdleSearch EXCEPT !.pc = "exists", !.sel = sel, !.i = 1]
    /\ builds' = [b \in BuildIds |-> [builds[b] EXCEPT !.fresh = FALSE]]
    /\ UNCHANGED <<tree, head, docs, nextBuild, rebuilt, lastDone, ld, fx, rq, sq, sc, cb>>

\* await fs.pathExists(repoPath), lines 964-969: an absent working tree is skipped.
SearchPathExists ==
    /\ s.pc = "exists"
    /\ s' = IF tree[s.sel[s.i]] = "deleted" THEN NextRepo(s)
            ELSE [s EXCEPT !.pc = "vmeta"]
    /\ UNCHANGED <<tree, head, docs, builds, nextBuild, rebuilt, lastDone, ld, fx, rq, sq, sc, cb>>

\* isCacheValid, lines 306-309: pathExists and readFile of metadata.json, then
\* JSON.parse.  An absent or unparsable document ends the check with false,
\* and the search takes the else branch of line 1082.
ValidReadMetadata ==
    /\ s.pc = "vmeta"
    /\ LET r == s.sel[s.i]
           md == docs[r]["metadata"]
       IN IF md.st = "ok"
          THEN s' = [s EXCEPT !.pc = "vgit", !.md = md]
          ELSE s' = [s EXCEPT !.pc = "glob", !.md = md,
                              !.valid = CacheValidResult(md, tree[r], head[r]),
                              !.fell = @ \cup {r}]
    /\ UNCHANGED <<tree, head, docs, builds, nextBuild, rebuilt, lastDone, ld, fx, rq, sq, sc, cb>>

\* isCacheValid, lines 312-315: git rev-parse HEAD and the comparison; then
\* the branch of line 972.
ValidRevparse ==
    /\ s.pc = "vgit"
    /\ LET r == s.sel[s.i]
           ok == CacheValidResult(s.md, tree[r], head[r])
       IN s' = [s EXCEPT !.pc = IF ok THEN "load" ELSE "glob",
                         !.git = IF tree[r] = "deleted" THEN "failed" ELSE "ok",
                         !.hd = IF tree[r] = "deleted" THEN NoVer ELSE head[r],
                         !.valid = ok,
                         !.fell = IF ok THEN @ ELSE @ \cup {r}]
    /\ UNCHANGED <<tree, head, docs, builds, nextBuild, rebuilt, lastDone, ld, fx, rq, sq, sc, cb>>

\* loadRepoCachePart(category, repo, 'searchIndex'), lines 839-858 and 973-975:
\* null for an absent or unparsable document, and then `if (searchIndex)` skips
\* the repository with nothing pushed.
LoadSearchIndex ==
    /\ s.pc = "load"
    /\ LET r == s.sel[s.i]
           ix == docs[r]["searchIndex"]
       IN s' = IF ix.st = "ok"
               THEN [s EXCEPT !.pc = "cached", !.ix = ix]
               ELSE NextRepo([s EXCEPT !.unusable = @ \cup {r}])
    /\ UNCHANGED <<tree, head, docs, builds, nextBuild, rebuilt, lastDone, ld, fx, rq, sq, sc, cb>>

\* A variant of the cached lookup whose regex pass over `terms` runs without
\* looking at `results`.
CachedLookupAlwaysFuzzy ==
    /\ s.pc = "cached"
    /\ LET r == s.sel[s.i]
           live == IF tree[r] = "ok" THEN head[r] ELSE NoVer
           exact == IF ExactHit(r, s.ix.from) /\ live /= NoVer
                    THEN <<Group(r, "exact", s.ix.from, live)>> ELSE <<>>
           fuzzy == IF FuzzyHit(r, s.ix.from) /\ live /= NoVer
                    THEN <<Group(r, "fuzzy", s.ix.from, live)>> ELSE <<>>
       IN s' = NextRepo([s EXCEPT !.results = (s.results \o exact) \o fuzzy])
    /\ UNCHANGED <<tree, head, docs, builds, nextBuild, rebuilt, lastDone, ld, fx, rq, sq, sc, cb>>

\* A rebuild waiting for its timer (setTimeout(..., 100), lines 1133-1135).
NewTimer(r) == [NoBuild EXCEPT !.pc = "timer", !.repo = r, !.fresh = TRUE]

\* A variant of the cached lookup that also schedules a rebuild of the
\* repository, as the fallback branch does.
CachedLookupRebuilding ==
    /\ s.pc = "cached"
    /\ nextBuild <= MaxBuilds
    /\ LET r == s.sel[s.i]
           live == IF tree[r] = "ok" THEN head[r] ELSE NoVer
           exact == IF ExactHit(r, s.ix.from) /\ live /= NoVer
                    THEN <<Group(r, "exact", s.ix.from, live)>> ELSE <<>>
           res1 == s.results \o exact
           fuzzy == IF Len(res1) = 0 /\ FuzzyHit(r, s.ix.from) /\ live /= NoVer
                    THEN <<Group(r, "fuzzy", s.ix.from, live)>> ELSE <<>>
       IN s' = NextRepo([s EXCEPT !.results = res1 \o fuzzy])
    /\ builds' = [builds EXCEPT ![nextBuild] = NewTimer(s.sel[s.i])]
    /\ nextBuild' = nextBuild + 1
    /\ UNCHANGED <<tree, head, docs, rebuilt, lastDone, ld, fx, rq, sq, sc, cb>>

\* Lines 976-1080: the exact-term lookup, then the regex pass over `terms`
\* when `results` is empty; each posting's file is read from the live working
\* tree for its context lines, a file that cannot be read is skipped.
CachedLookup ==
    /\ s.pc = "cached"
    /\ LET r == s.sel[s.i]
           live == IF tree[r] = "ok" THEN head[r] ELSE NoVer
           exact == IF ExactHit(r, s.ix.from) /\ live /= NoVer
                    THEN <<Group(r, "exact", s.ix.from, live)>> ELSE <<>>
           res1 == s.results \o exact
           fuzzy == IF Len(res1) = 0 /\ FuzzyHit(r, s.ix.from) /\ live /= NoVer
                    THEN <<Group(r, "fuzzy", s.ix.from, live)>> ELSE <<>>
       IN s' = NextRepo([s EXCEPT !.results = res1 \o fuzzy])
    /\ UNCHANGED <<tree, head, docs, builds, nextBuild, rebuilt, lastDone, ld, fx, rq, sq, sc, cb>>

\* await globby(...), lines 1087-1091.  An absent directory lists no file; an
\* enumeration error rejects, nothing inside the loops catches it, and the
\* catch of line 1141 ends the whole request with [].
Globby ==
    /\ s.pc = "glob"
    /\ LET r == s.sel[s.i]
       IN s' = IF tree[r] = "unreadable"
               THEN [Locals(s) EXCEPT !.pc = "aborted"]
               ELSE [s EXCEPT !.pc = "scan",
                              !.files = IF tree[r] = "ok" THEN head[r] ELSE NoVer]
    /\ UNCHANGED <<tree, head, docs, builds, nextBuild, rebuilt, lastDone, ld, fx, rq, sq, sc, cb>>

\* Lines 1093-1135: every listed file is read and its lines tested with
\* includes(pattern); a file that cannot be read is skipped; then the rebuild
\* is scheduled.
DirectScan ==
    /\ s.pc = "scan"
    /\ nextBuild <= MaxBuilds
    /\ LET r == s.sel[s.i]
           live == IF tree[r] = "ok" /\ s.files /= NoVer THEN head[r] ELSE NoVer
           found == IF LiteralHit(r, live)
                    THEN <<Group(r, "scan", NoVer, live)>> ELSE <<>>
       IN s' = NextRepo([s EXCEPT !.results = @ \o found])
    /\ builds' = [builds EXCEPT ![nextBuild] = NewTimer(s.sel[s.i])]
    /\ nextBuild' = nextBuild + 1
    /\ UNCHANGED <<tree, head, docs, rebuilt, lastDone, ld, fx, rq, sq, sc, cb>>

\* ----------------------------------------------------------- buildRepoCache
\* The revision whose files a step of the rebuild reads from the working tree.
TreeContent(r) == IF tree[r] = "ok" THEN head[r] ELSE NoVer

\* A rebuild that has ended: only how it ended is kept.
Ended(b, how) == [NoBuild EXCEPT !.pc = how, !.repo = builds[b].repo,
                                 !.fresh = builds[b].fresh]

\* A variant of buildRepoCache that returns without scanning or writing when
\* the cache of the repository is valid.
ScanFileStructureIfStale(b) ==
    /\ builds[b].pc = "timer"
    /\ LET r == builds[b].repo
       IN builds' = [builds EXCEPT ![b] =
              IF IsCacheValid(r) THEN Ended(b, "done")
              ELSE IF tree[r] = "unreadable" THEN Ended(b, "failed")
              ELSE [@ EXCEPT !.pc = "index", !.sFrom = TreeContent(r)]]
    /\ UNCHANGED <<tree, head, docs, s, nextBuild, rebuilt, lastDone, ld, fx, rq, sq, sc, cb>>

\* The timer fires and buildRepoCache runs scanFileStructure (lines 325-388,
\* 740).  globby on an absent directory lists nothing; an enumeration error
\* rejects and buildRepoCache returns null (lines 768-771).
ScanFileStructure(b) ==
    /\ builds[b].pc = "timer"
    /\ LET r == builds[b].repo
       IN builds' = [builds EXCEPT ![b] =
              IF tree[r] = "unreadable"
              THEN Ended(b, "failed")
              ELSE [@ EXCEPT !.pc = "index", !.sFrom = TreeContent(r)]]
    /\ UNCHANGED <<tree, head, docs, s, nextBuild, rebuilt, lastDone, ld, fx, rq, sq, sc, cb>>

\* buildSearchIndex (lines 393-484, 744) reads every file of the structure; a
\* file that cannot be read is skipped.
BuildSearchIndex(b) ==
    /\ builds[b].pc = "index"
    /\ LET r == builds[b].repo
       IN builds' = [builds EXCEPT ![b] =
              [@ EXCEPT !.pc = "analyze",
                        !.iFrom = IF builds[b].sFrom = NoVer THEN NoVer
                                  ELSE TreeContent(r)]]
    /\ UNCHANGED <<tree, head, docs, s, nextBuild, rebuilt, lastDone, ld, fx, rq, sq, sc, cb>>

\* analyzeCodeStructure (lines 491-683, 748) reads the code files again.
AnalyzeCodeStructure(b) ==
    /\ builds[b].pc = "analyze"
    /\ LET r == builds[b].repo
       IN builds' = [builds EXCEPT ![b] =
              [@ EXCEPT !.pc = "meta",
                        !.cFrom = IF builds[b].sFrom = NoVer THEN NoVer
                                  ELSE TreeContent(r)]]
    /\ UNCHANGED <<tree, head, docs, s, nextBuild, rebuilt, lastDone, ld, fx, rq, sq, sc, cb>>

\* A variant of getRepositoryMetadata that stores a value of the run (as
\* lastScanned is) in lastCommitHash instead of the HEAD of the working tree.
GetRepositoryMetadataOfRun(b) ==
    /\ builds[b].pc = "meta"
    /\ LET r == builds[b].repo
       IN builds' = [builds EXCEPT ![b] =
              IF tree[r] = "deleted"
              THEN Ended(b, "failed")
              ELSE [@ EXCEPT !.pc = "save", !.hash = MaxCommits + b]]
    /\ UNCHANGED <<tree, head, docs, s, nextBuild, rebuilt, lastDone, ld, fx, rq, sq, sc, cb>>

\* getRepositoryMetadata (lines 688-729, 752): git rev-parse HEAD, now.  It
\* throws when the working tree is gone, and buildRepoCache returns null.
GetRepositoryMetadata(b) ==
    /\ builds[b].pc = "meta"
    /\ LET r == builds[b].repo
       IN builds' = [builds EXCEPT ![b] =
              IF tree[r] = "deleted"
              THEN Ended(b, "failed")
              ELSE [@ EXCEPT !.pc = "save", !.hash = head[r]]]
    /\ UNCHANGED <<tree, head, docs, s, nextBuild, rebuilt, lastDone, ld, fx, rq, sq, sc, cb>>

\* ------------------------------------------------------------ saveRepoCache
\* What build b writes into document d (lines 785-800).
DocContent(b, d) ==
    CASE d = "metadata" -> Written(builds[b].sFrom, builds[b].hash)
      [] d = "structure" -> Written(builds[b].sFrom, NoVer)
      [] d = "searchIndex" -> Written(builds[b].iFrom, NoVer)
      [] OTHER -> Written(builds[b].cFrom, NoVer)

\* fs.writeFile (lines 784-801) opens the file with flag 'w', which truncates
\* it, and writes the data in a later step.  The four writes of Promise.all
\* proceed independently, in any order.
WriteOpen(b, d) ==
    /\ builds[b].pc \in {"save", "unsaved"}
    /\ builds[b].w[d] = "todo"
    /\ docs' = [docs EXCEPT ![builds[b].repo][d] = Partial]
    /\ builds' = [builds EXCEPT ![b].w[d] = "open"]
    /\ UNCHANGED <<tree, head, s, nextBuild, rebuilt, lastDone, ld, fx, rq, sq, sc, cb>>

\* The data of one document reaches the file.  When it is the last of the
\* four, Promise.all resolves and buildRepoCache returns the cache.
WriteData(b, d) ==
    /\ builds[b].pc \in {"save", "unsaved"}
    /\ builds[b].w[d] = "open"
    /\ LET r == builds[b].repo
           all == \A e \in Docs \ {d} : builds[b].w[e] = "done"
       IN /\ docs' = [docs EXCEPT ![r][d] = DocContent(b, d)]
          /\ builds' = [builds EXCEPT ![b] =
                 IF all THEN Ended(b, "done") ELSE [@ EXCEPT !.w[d] = "done"]]
          /\ rebuilt' = IF all THEN [rebuilt EXCEPT ![r] = TRUE] ELSE rebuilt
          /\ lastDone' = IF all THEN [lastDone EXCEPT ![r] = [e \in Docs |-> DocContent(b, e)]]
                         ELSE lastDone
    /\ UNCHANGED <<tree, head, s, nextBuild, ld, fx, rq, sq, sc, cb>>

\* One fs.writeFile of Promise.all rejects (lines 784-801; disk full, no
\* permission): at the open, leaving the file as it was, or after the open has
\* truncated it.  saveRepoCache has no try/catch, so the rejection reaches the
\* catch of buildRepoCache (lines 768-771), which returns null.  The other
\* writes of Promise.all are not cancelled and go on (pc "unsaved").
WriteFault(b, d) ==
    /\ builds[b].pc = "save"
    /\ builds[b].w[d] \in {"todo", "open"}
    /\ builds' = [builds EXCEPT ![b] = [@ EXCEPT !.pc = "unsaved", !.w[d] = "failed"]]
    /\ UNCHANGED <<tree, head, docs, s, nextBuild, rebuilt, lastDone, ld, fx, rq, sq, sc, cb>>

\* -------------------------------------------------------------------- crash
InFlight(b) ==
    builds[b].pc \in {"timer", "index", "analyze", "meta", "save", "unsaved"}

\* The process dies: the request in flight, the pending timers and the
\* running rebuilds are gone; the files stay as they are.
Crash ==
    /\ Searching \/ \E b \in BuildIds : InFlight(b)
    /\ s' = IdleSearch
    /\ builds' = [b \in BuildIds |->
                    IF InFlight(b) THEN [Ended(b, "dead") EXCEPT !.fresh = FALSE]
                    ELSE [builds[b] EXCEPT !.fresh = FALSE]]
    /\ UNCHANGED <<tree, head, docs, nextBuild, rebuilt, lastDone, ld, fx, rq, sq, sc, cb>>

\* ------------------------------------------------------------ specification
\* Rebuilds whose timer has fired.
Fired == Cardinality({b \in BuildIds : builds[b].pc \notin {"none", "timer"}})

\* The whole system.  The only restriction is a bound on the schedule: of the
\* rebuilds scheduled, MaxFired start before the run ends.
Next ==
    \/ \E r \in Repos : Commit(r)
    \/ \E r \in Repos : DeleteTree(r)
    \/ \E r \in Repos : BreakTree(r)
    \/ \E sel \in Selections : StartSearch(sel)
    \/ SearchPathExists
    \/ ValidReadMetadata
    \/ ValidRevparse
    \/ LoadSearchIndex
    \/ CachedLookup
    \/ Globby
    \/ DirectScan
    \/ \E b \in BuildIds : Fired < MaxFired /\ ScanFileStructure(b)
    \/ \E b \in BuildIds : BuildSearchIndex(b)
    \/ \E b \in BuildIds : AnalyzeCodeStructure(b)
    \/ \E b \in BuildIds : GetRepositoryMetadata(b)
    \/ \E b \in BuildIds, d \in Docs : WriteOpen(b, d)
    \/ \E b \in BuildIds, d \in Docs : WriteData(b, d)
    \/ Crash

Spec == Init /\ [][Next]_vars

\* Two fallback searches of the first repository have returned and the two
\* rebuilds they scheduled are waiting for their timers.
InitRace ==
    /\ tree = [r \in Repos |-> "ok"]
    /\ cb = NoClass
    /\ head = [r \in Repos |-> 0]
    /\ docs = [r \in Repos |-> [d \in Docs |-> Absent]]
    /\ s = IdleSearch
    /\ builds = [b \in BuildIds |-> [NewTimer(RepoOrder[1]) EXCEPT !.fresh = FALSE]]
    /\ nextBuild = MaxBuilds + 1
    /\ rebuilt = [r \in Repos |-> FALSE]
    /\ lastDone = [r \in Repos |-> NoSave]
    /\ ld = IdleLoad
    /\ rq = NoRequest
    /\ sq = IdleStatus
    /\ sc = NoScan
    /\ fx = NoFixture

\* The rebuilds run with no bound on how they overlap, while commits land.
NextRace ==
    \/ Commit(RepoOrder[1])
    \/ \E b \in BuildIds : ScanFileStructure(b)
    \/ \E b \in BuildIds : BuildSearchIndex(b)
    \/ \E b \in BuildIds : AnalyzeCodeStructure(b)
    \/ \E b \in BuildIds : GetRepositoryMetadata(b)
    \/ \E b \in BuildIds, d \in Docs : WriteOpen(b, d)
    \/ \E b \in BuildIds, d \in Docs : WriteData(b, d)

SpecRace == InitRace /\ [][NextRace]_vars

\* ------------------------------------------- searches over any cache on disk
\* What an earlier run of the process can have left in a cache directory
\* (saves interrupted by a crash, rebuilds at older or newer revisions):
\* metadata.json and searchIndex.json absent, truncated or complete at any
\* revision, structure.json and codeStructure.json absent or complete, each
\* independently of the others.
DiskStates ==
    {f \in [Docs -> {Absent, Partial} \cup {Written(v, NoVer) : v \in 0..MaxCommits}
                                      \cup {Written(v, v) : v \in 0..MaxCommits}] :
        /\ f["metadata"].st = "ok" => f["metadata"].hash /= NoVer
        /\ \A d \in IndexDocs : f[d].hash = NoVer
        /\ \A d \in {"structure", "codeStructure"} :
              f[d].st /= "partial" /\ f[d].from <= 0}

\* The first repository's cache directory holds any of these; the second
\* repository has never been cached.
InitDisk ==
    /\ tree = [r \in Repos |-> "ok"]
    /\ cb = NoClass
    /\ head = [r \in Repos |-> 0]
    /\ \E f \in DiskStates :
          docs = [r \in Repos |-> IF r = RepoOrder[1] THEN f ELSE NoSave]
    /\ s = IdleSearch
    /\ builds = [b \in BuildIds |-> NoBuild]
    /\ nextBuild = 1
    /\ rebuilt = [r \in Repos |-> FALSE]
    /\ lastDone = [r \in Repos |-> NoSave]
    /\ ld = IdleLoad
    /\ rq = NoRequest
    /\ sq = IdleStatus
    /\ sc = NoScan
    /\ fx = NoFixture

\* Searches and the environment; the rebuilds scheduled stay on their timers.
NextDisk ==
    \/ \E r \in Repos : Commit(r)
    \/ \E r \in Repos : DeleteTree(r)
    \/ \E r \in Repos : BreakTree(r)
    \/ \E sel \in Selections : StartSearch(sel)
    \/ SearchPathExists
    \/ ValidReadMetadata
    \/ ValidRevparse
    \/ LoadSearchIndex
    \/ CachedLookup
    \/ Globby
    \/ DirectScan

SpecDisk == InitDisk /\ [][NextDisk]_vars

\* --------------------------------------------- searches over complete caches
\* A complete cache as one undisturbed rebuild at revision v leaves it.
WarmCache(v) == [d \in Docs |-> IF d = "metadata" THEN Written(v, v) ELSE Written(v, NoVer)]

\* Every repository has no cache or a complete one, built at any revision.
InitWarm ==
    /\ tree = [r \in Repos |-> "ok"]
    /\ cb = NoClass
    /\ head = [r \in Repos |-> 0]
    /\ docs \in [Repos -> {NoSave} \cup {WarmCache(v) : v \in 0..MaxCommits}]
    /\ s = IdleSearch
    /\ builds = [b \in BuildIds |-> NoBuild]
    /\ nextBuild = 1
    /\ rebuilt = [r \in Repos |-> FALSE]
    /\ lastDone = [r \in Repos |-> NoSave]
    /\ ld = IdleLoad
    /\ rq = NoRequest
    /\ sq = IdleStatus
    /\ sc = NoScan
    /\ fx = NoFixture

SpecWarm == InitWarm /\ [][NextDisk]_vars

\* ------------------------------------------------- the search on a fixture
\* The two search paths and the index builder as functions of file content.
\* A line is a sequence of characters, a file a sequence of lines, the
\* repository a sequence of files in the order globby and Object.entries list
\* them.  structure.files records the size and the extension of each.
FileNames == <<"a.ts", "b.ts">>

MaxLines == 2     \* lines of a fixture file
MaxTall == 8      \* lines of the tall fixture file
MaxCap == 2       \* the largest maxResults a request asks for
ContextRadius == 3   \* Math.max(0, line - 3), Math.min(lines.length - 1, line + 3)
MinTermLen == 3      \* term.length < 3 is skipped; sub-terms need length > 2

Fo == <<"f", "o">>
Foo == <<"f", "o", "o">>
For == <<"f", "o", "r">>
FooBoo == <<"f", "o", "o", "B", "o", "o">>
FooFoo == <<"f", "o", "o", " ", "f", "o", "o">>
RooFoo == <<"r", "o", "o", "_", "f", "o", "o">>
Ctor == <<"c", "o", "n", "s", "t", "r", "u", "c", "t", "o", "r">>
FooCtorFoo == Foo \o <<" ">> \o Ctor \o <<" ">> \o Foo

\* The lines a fixture file is made of, and the patterns asked for.
LineSet == {Foo, FooBoo, FooFoo, RooFoo, For}
Patterns == {Foo, For, Fo}

\* Of the words the indexer skips, the one the alphabet can spell.
StopWords == {For}

\* The indexes are plain objects ({}), so index[name] is a function, not
\* undefined, for the names Object.prototype defines; of those, the one the
\* alphabet can spell.
InheritedKeys == {Ctor}

LowerOf(c) == IF c = "B" THEN "b" ELSE c
ToLower(w) == [k \in 1..Len(w) |-> LowerOf(w[k])]
IsUpper(c) == c = "B"
IsIdChar(c) == c \in {"f", "o", "r", "b", "B", "_", "c", "n", "s", "t", "u"}

\* hay.includes(needle)
Includes(hay, needle) ==
    \E k \in 0..(Len(hay) - Len(needle)) :
        \A j \in 1..Len(needle) : hay[k + j] = needle[j]

\* new RegExp(pattern, 'i').test(term), for a pattern of letters only.
RegexTest(pattern, term) == Includes(ToLower(term), ToLower(pattern))

\* Where a split cuts w: "ids" at a character that is not part of an
\* identifier, "camel" before an upper-case letter that is not the first
\* character, "snake" at an underscore.
CutAt(mode, w, k) ==
    CASE mode = "ids" -> ~IsIdChar(w[k])
      [] mode = "camel" -> k > 1 /\ IsUpper(w[k])
      [] OTHER -> w[k] = "_"

\* The pieces of w from character k on, `cur` being the piece in progress.
\* The character at a cut is dropped, except in "camel" where it starts the
\* next piece.
RECURSIVE SplitFrom(_, _, _, _)
SplitFrom(mode, w, k, cur) ==
    IF k > Len(w) THEN <<cur>>
    ELSE IF CutAt(mode, w, k)
         THEN <<cur>> \o SplitFrom(mode, w, k + 1, IF mode = "camel" THEN <<w[k]>> ELSE <<>>)
         ELSE SplitFrom(mode, w, k + 1, Append(cur, w[k]))

\* line.match(/[a-zA-Z_$][a-zA-Z0-9_$]*/g) || []
Identifiers(line) == SelectSeq(SplitFrom("ids", line, 1, <<>>), LAMBDA w : Len(w) > 0)

\* term.split(/(?=[A-Z])/) and term.split('_'), each filtered to length > 2
CamelTerms(term) == SelectSeq(SplitFrom("camel", term, 1, <<>>), LAMBDA w : Len(w) >= MinTermLen)
SnakeTerms(term) == SelectSeq(SplitFrom("snake", term, 1, <<>>), LAMBDA w : Len(w) >= MinTermLen)
AllTerms(term) == CamelTerms(term) \o SnakeTerms(term)

\* An index (exactTerms or terms) is the sequence of its postings in insertion
\* order, each [term, file, occurrences, positions]; index[term] is the postings of term.
PostingsOf(ix, term) == SelectSeq(ix, LAMBDA e : e.term = term)

RECURSIVE KeysFrom(_, _, _)
KeysFrom(ix, k, seen) ==
    IF k > Len(ix) THEN <<>>
    ELSE IF ix[k].term \in seen THEN KeysFrom(ix, k + 1, seen)
         ELSE <<ix[k].term>> \o KeysFrom(ix, k + 1, seen \cup {ix[k].term})

\* Object.keys(index)
Keys(ix) == KeysFrom(ix, 1, {})

HasPosting(ix, term, file) == \E k \in 1..Len(ix) : ix[k].term = term /\ ix[k].file = file

\* The line `pos` is among the positions of a posting: positions.includes(pos)
IncludesLine(positions, pos) == \E j \in 1..Len(positions) : positions[j] = pos

\* A variant of AddExact that pushes a line once, as `terms` does.
AddExactOncePerLine(ix, term, file, pos) ==
    IF HasPosting(ix, term, file)
    THEN [k \in 1..Len(ix) |->
            IF ix[k].term = term /\ ix[k].file = file
            THEN [ix[k] EXCEPT !.occurrences = @ + 1,
                               !.positions = IF IncludesLine(@, pos) THEN @ ELSE Append(@, pos)]
            ELSE ix[k]]
    ELSE Append(ix, [term |-> term, file |-> file, occurrences |-> 1, positions |-> <<pos>>])

\* exactTerms: the first occurrence in a file pushes a posting with
\* occurrences 1, every later one increments it and pushes its line onto
\* positions (lines 428-447).
AddExact(ix, term, file, pos) ==
    IF HasPosting(ix, term, file)
    THEN [k \in 1..Len(ix) |->
            IF ix[k].term = term /\ ix[k].file = file
            THEN [ix[k] EXCEPT !.occurrences = @ + 1, !.positions = Append(@, pos)]
            ELSE ix[k]]
    ELSE Append(ix, [term |-> term, file |-> file, occurrences |-> 1, positions |-> <<pos>>])

\* A variant of AddTerm that pushes a posting whether or not the file has one.
AddTermAlwaysPush(ix, term, file, pos) ==
    Append(ix, [term |-> term, file |-> file, occurrences |-> 1, positions |-> <<pos>>])

\* A variant of AddTerm that pushes the line whether or not it is there.
AddTermEveryLine(ix, term, file, pos) ==
    IF HasPosting(ix, term, file)
    THEN [k \in 1..Len(ix) |->
            IF ix[k].term = term /\ ix[k].file = file
            THEN [ix[k] EXCEPT !.occurrences = @ + 1, !.positions = Append(@, pos)]
            ELSE ix[k]]
    ELSE Append(ix, [term |-> term, file |-> file, occurrences |-> 1, positions |-> <<pos>>])

\* terms: the entry of the file is found by entries.find; it is incremented
\* and the line pushed unless positions.includes it (lines 454-471).
AddTerm(ix, term, file, pos) ==
    IF HasPosting(ix, term, file)
    THEN [k \in 1..Len(ix) |->
            IF ix[k].term = term /\ ix[k].file = file
            THEN [ix[k] EXCEPT !.occurrences = @ + 1,
                               !.positions = IF IncludesLine(@, pos) THEN @ ELSE Append(@, pos)]
            ELSE ix[k]]
    ELSE Append(ix, [term |-> term, file |-> file, occurrences |-> 1, positions |-> <<pos>>])

\* The sub-terms of one identifier (lines 454-472).  terms[name] of an
\* inherited name is a function without `find`: the call throws.
RECURSIVE AddSubTerms(_, _, _, _, _)
AddSubTerms(si, subs, k, file, pos) ==
    IF k > Len(subs) THEN si
    ELSE IF ToLower(subs[k]) \in InheritedKeys THEN [si EXCEPT !.thrown = TRUE]
         ELSE AddSubTerms([si EXCEPT !.terms = AddTerm(@, ToLower(subs[k]), file, pos)],
                          subs, k + 1, file, pos)

\* The identifiers of one line (lines 420-472).  exactTerms[name] of an
\* inherited name is a function without `push`: the call throws.
RECURSIVE IndexIdentifiers(_, _, _, _, _)
IndexIdentifiers(si, ids, k, file, pos) ==
    IF k > Len(ids) \/ si.thrown THEN si
    ELSE IF Len(ids[k]) < MinTermLen \/ ToLower(ids[k]) \in StopWords
         THEN IndexIdentifiers(si, ids, k + 1, file, pos)
         ELSE IF ids[k] \in InheritedKeys THEN [si EXCEPT !.thrown = TRUE]
         ELSE IndexIdentifiers(
                 AddSubTerms([si EXCEPT !.exactTerms = AddExact(@, ids[k], file, pos)],
                             AllTerms(ids[k]), 1, file, pos),
                 ids, k + 1, file, pos)

\* The lines of one file (lines 415-417), up to the line that throws.
RECURSIVE IndexLines(_, _, _, _)
IndexLines(si, lines, i, file) ==
    IF i > Len(lines) \/ si.thrown THEN si
    ELSE IndexLines(IndexIdentifiers(si, Identifiers(lines[i]), 1, file, i), lines, i + 1, file)

\* info.size > 1024 * 1024 (line 402)
MaxIndexedSize == 1048576

\* The extensions of the fixture files, and those of them the pattern of
\* line 403 lists; the pattern is matched case-insensitively.
Extensions == {".ts", ".TS", ".png"}
LowerExt(ext) == IF ext = ".TS" THEN ".ts" ELSE ext
ExtensionListed(ext) == LowerExt(ext) \in {".ts"}

\* A variant of TooLarge that also skips a file of exactly the limit.
TooLargeAtLimit(size) == size >= MaxIndexedSize

\* if (info.size > 1024 * 1024) continue
TooLarge(size) == size > MaxIndexedSize

\* What structure.files records of a file that is indexed: a small file with
\* a listed extension.
SmallListed == [size |-> 1, ext |-> ".ts"]

\* buildSearchIndex over the files of the structure (lines 393-484): a file
\* too large or of an unlisted extension is passed over (lines 402-405);
\* what a file throws is caught and logged, and the next file is indexed
\* (lines 407, 476-478).
RECURSIVE IndexFiles(_, _, _, _)
IndexFiles(si, files, infos, f) ==
    IF f > Len(files) THEN si
    ELSE IF TooLarge(infos[f].size) \/ ~ExtensionListed(infos[f].ext)
         THEN IndexFiles(si, files, infos, f + 1)
         ELSE IndexFiles([IndexLines(si, files[f], 1, FileNames[f]) EXCEPT !.thrown = FALSE],
                         files, infos, f + 1)

SearchIndexOf(files, infos) ==
    LET si == IndexFiles([exactTerms |-> <<>>, terms |-> <<>>, thrown |-> FALSE], files, infos, 1)
    IN [exactTerms |-> si.exactTerms, terms |-> si.terms]

\* A variant of the context window whose start is not clamped at the first line.
ContextWindowUnclamped(n, line) ==
    LET start == line - ContextRadius
        end == IF line + ContextRadius < n - 1 THEN line + ContextRadius ELSE n - 1
    IN [k \in 1..(end - start + 1) |-> [line |-> start + k, isMatch |-> start + k - 1 = line]]

\* lines.slice(start, end + 1).map(...) around the 0-based index `line` of a
\* file of n lines (lines 1001-1016, 1055-1067, 1103-1114).
ContextWindow(n, line) ==
    LET start == IF line - ContextRadius > 0 THEN line - ContextRadius ELSE 0
        end == IF line + ContextRadius < n - 1 THEN line + ContextRadius ELSE n - 1
    IN [k \in 1..(end - start + 1) |-> [line |-> start + k, isMatch |-> start + k - 1 = line]]

\* One entry of `matches`: the 1-based line and its context.
MatchAt(n, pos) == [line |-> pos, context |-> ContextWindow(n, pos - 1)]

FileIndex(name) == CHOOSE f \in 1..Len(FileNames) : FileNames[f] = name

\* The cached paths push one group per position of a posting, skipping a
\* position outside the live file (lines 994-1018, 1048-1069).
RECURSIVE GroupsOfPositions(_, _, _, _, _)
GroupsOfPositions(e, k, files, via, acc) ==
    IF k > Len(e.positions) THEN acc
    ELSE LET n == Len(files[FileIndex(e.file)])
             pos == e.positions[k]
         IN GroupsOfPositions(e, k + 1, files, via,
                IF pos - 1 < 0 \/ pos - 1 >= n THEN acc
                ELSE Append(acc, [file |-> e.file, via |-> via, matches |-> <<MatchAt(n, pos)>>]))

RECURSIVE GroupsOfPostings(_, _, _, _, _)
GroupsOfPostings(ps, k, files, via, acc) ==
    IF k > Len(ps) THEN acc
    ELSE GroupsOfPostings(ps, k + 1, files, via, GroupsOfPositions(ps[k], 1, files, via, acc))

RECURSIVE FuzzyGroups(_, _, _, _, _, _)
FuzzyGroups(si, keys, k, files, pattern, acc) ==
    IF k > Len(keys) THEN acc
    ELSE FuzzyGroups(si, keys, k + 1, files, pattern,
            IF RegexTest(pattern, keys[k])
            THEN GroupsOfPostings(PostingsOf(si.terms, keys[k]), 1, files, "fuzzy", acc)
            ELSE acc)

\* The cached branch on an empty result list (lines 976-1080).
CachedResults(files, si, pattern) ==
    LET exact == GroupsOfPostings(PostingsOf(si.exactTerms, pattern), 1, files, "exact", <<>>)
    IN IF Len(exact) = 0
       THEN FuzzyGroups(si, Keys(si.terms), 1, files, pattern, exact)
       ELSE exact

\* The matching lines of one file (lines 1099-1116).
RECURSIVE MatchingLines(_, _, _)
MatchingLines(lines, i, pattern) ==
    IF i > Len(lines) THEN <<>>
    ELSE (IF Includes(lines[i], pattern) THEN <<MatchAt(Len(lines), i)>> ELSE <<>>)
         \o MatchingLines(lines, i + 1, pattern)

\* The fallback branch (lines 1093-1130): one group per file with matches.
RECURSIVE ScanResults(_, _, _)
ScanResults(files, f, pattern) ==
    IF f > Len(files) THEN <<>>
    ELSE LET ms == MatchingLines(files[f], 1, pattern)
         IN (IF Len(ms) > 0 THEN <<[file |-> FileNames[f], via |-> "scan", matches |-> ms]>>
             ELSE <<>>) \o ScanResults(files, f + 1, pattern)

\* The fixtures: two files of up to MaxLines lines each, or a tall file of
\* equal lines next to a one-line file, or a file that names a property
\* every object inherits next to a one-line file.
FileBodies == UNION {[1..n -> LineSet] : n \in 1..MaxLines}
TallBodies == {[k \in 1..n |-> l] : n \in 1..MaxTall, l \in LineSet}
InheritedBodies == {<<FooCtorFoo>>, <<Ctor, Foo>>, <<Foo, Ctor>>}
Fixtures == {<<a, b>> : a \in FileBodies, b \in FileBodies}
            \cup {<<a, <<l>>>> : a \in TallBodies, l \in LineSet}
            \cup {<<a, <<l>>>> : a \in InheritedBodies, l \in LineSet}

NoIndex == [exactTerms |-> <<>>, terms |-> <<>>]
\* The response carries no `truncated` and no `omittedCount` field.
NoResponse == [groups |-> <<>>, truncated |-> "absent", omittedCount |-> NoVer]

InitFixture ==
    /\ tree = [r \in Repos |-> "ok"]
    /\ cb = NoClass
    /\ head = [r \in Repos |-> 0]
    /\ docs = [r \in Repos |-> NoSave]
    /\ s = IdleSearch
    /\ builds = [b \in BuildIds |-> NoBuild]
    /\ nextBuild = 1
    /\ rebuilt = [r \in Repos |-> FALSE]
    /\ lastDone = [r \in Repos |-> NoSave]
    /\ ld = IdleLoad
    /\ rq = NoRequest
    /\ sq = IdleStatus
    /\ sc = NoScan
    /\ \E files \in Fixtures, pattern \in Patterns :
          fx = [pc |-> "fresh", files |-> files, infos |-> <<SmallListed, SmallListed>>,
                pattern |-> pattern, index |-> NoIndex,
                cached |-> <<>>, scanned |-> <<>>, via |-> "none", maxResults |-> 0,
                response |-> NoResponse]

\* buildSearchIndex on the fixture.
IndexFixture ==
    /\ fx.pc = "fresh"
    /\ fx' = [fx EXCEPT !.pc = "indexed", !.index = SearchIndexOf(fx.files, fx.infos)]
    /\ UNCHANGED <<tree, head, docs, s, builds, nextBuild, rebuilt, lastDone, ld, rq, sq, sc, cb>>

\* searchCodeWithCache with the cache valid: the postings come from the index,
\* the lines from the files as they are now.
CachedSearchFixture ==
    /\ fx.pc \in {"indexed", "edited"}
    /\ fx' = [fx EXCEPT !.pc = "cached", !.cached = CachedResults(fx.files, fx.index, fx.pattern)]
    /\ UNCHANGED <<tree, head, docs, s, builds, nextBuild, rebuilt, lastDone, ld, rq, sq, sc, cb>>

\* searchCodeWithCache with the cache deleted.
DirectScanFixture ==
    /\ fx.pc = "cached"
    /\ fx' = [fx EXCEPT !.pc = "scanned", !.scanned = ScanResults(fx.files, 1, fx.pattern)]
    /\ UNCHANGED <<tree, head, docs, s, builds, nextBuild, rebuilt, lastDone, ld, rq, sq, sc, cb>>

\* The search_code handler (part_000 lines 672-698): the list
\* searchCodeWithCache returned, serialized as it is; a maxResults argument
\* of the request is not read.
SearchCodeHandler(via, maxResults) ==
    /\ fx.pc = "scanned"
    /\ fx' = [fx EXCEPT !.pc = "answered", !.via = via, !.maxResults = maxResults,
                        !.response = [NoResponse EXCEPT
                            !.groups = IF via = "cache" THEN fx.cached ELSE fx.scanned]]
    /\ UNCHANGED <<tree, head, docs, s, builds, nextBuild, rebuilt, lastDone, ld, rq, sq, sc, cb>>

NextFixture ==
    \/ IndexFixture
    \/ CachedSearchFixture
    \/ DirectScanFixture
    \/ \E via \in {"cache", "scan"}, m \in 1..MaxCap : SearchCodeHandler(via, m)

SpecFixture == InitFixture /\ [][NextFixture]_vars

\* ------------------------------------------- the indexer's choice of files
\* buildSearchIndex on two files of identifiers, their sizes around the limit
\* and their extensions listed or not.  The size is the one fs.stat reported
\* to scanFileStructure, the extension that of the path.
Sizes == {MaxIndexedSize - 1, MaxIndexedSize, MaxIndexedSize + 1}
FileInfos == [size : Sizes, ext : Extensions]

InitIndex ==
    /\ tree = [r \in Repos |-> "ok"]
    /\ cb = NoClass
    /\ head = [r \in Repos |-> 0]
    /\ docs = [r \in Repos |-> NoSave]
    /\ s = IdleSearch
    /\ builds = [b \in BuildIds |-> NoBuild]
    /\ nextBuild = 1
    /\ rebuilt = [r \in Repos |-> FALSE]
    /\ lastDone = [r \in Repos |-> NoSave]
    /\ ld = IdleLoad
    /\ rq = NoRequest
    /\ sq = IdleStatus
    /\ sc = NoScan
    /\ \E a \in {<<Foo>>, <<FooBoo, Foo>>}, ia \in FileInfos, ib \in FileInfos :
          fx = [pc |-> "fresh", files |-> <<a, <<RooFoo>>>>, infos |-> <<ia, ib>>,
                pattern |-> Foo, index |-> NoIndex,
                cached |-> <<>>, scanned |-> <<>>, via |-> "none", maxResults |-> 0,
                response |-> NoResponse]

NextIndex == IndexFixture

SpecIndex == InitIndex /\ [][NextIndex]_vars

\* ------------------------------------------------ two rebuilds in succession
\* A rebuild is between its first read and its return.
Running(b) == builds[b].pc \in {"index", "analyze", "meta", "save"}

\* Two rebuilds of the first repository are scheduled; the second starts
\* after the first has returned.  The working tree changes at any moment.
NextTwice ==
    \/ Commit(RepoOrder[1])
    \/ DeleteTree(RepoOrder[1])
    \/ BreakTree(RepoOrder[1])
    \/ \E b \in BuildIds : (\A o \in BuildIds : ~Running(o)) /\ ScanFileStructure(b)
    \/ \E b \in BuildIds : BuildSearchIndex(b)
    \/ \E b \in BuildIds : AnalyzeCodeStructure(b)
    \/ \E b \in BuildIds : GetRepositoryMetadata(b)
    \/ \E b \in BuildIds, d \in Docs : WriteOpen(b, d)
    \/ \E b \in BuildIds, d \in Docs : WriteData(b, d)

SpecTwice == InitRace /\ [][NextTwice]_vars

\* ------------------------------------------- from the fallback to the cache
\* The steps of a search request in flight, and the steps of the rebuilds.
SearchSteps ==
    \/ SearchPathExists
    \/ ValidReadMetadata
    \/ ValidRevparse
    \/ LoadSearchIndex
    \/ CachedLookup
    \/ Globby
    \/ DirectScan

RebuildSteps ==
    \/ \E b \in BuildIds : ScanFileStructure(b)
    \/ \E b \in BuildIds : BuildSearchIndex(b)
    \/ \E b \in BuildIds : AnalyzeCodeStructure(b)
    \/ \E b \in BuildIds : GetRepositoryMetadata(b)
    \/ \E b \in BuildIds, d \in Docs : WriteOpen(b, d)
    \/ \E b \in BuildIds, d \in Docs : WriteData(b, d)

\* Searches of the first repository, one after the other, and the rebuilds
\* they schedule.  The revision does not change, the working tree stays, no
\* write fails and the process does not die.
NextLive ==
    \/ StartSearch(<<RepoOrder[1]>>)
    \/ SearchSteps
    \/ RebuildSteps

\* The event loop runs every continuation that is ready and fires every
\* timer: a request in flight and a scheduled rebuild both go on.  Nothing
\* makes a client send another request.
SpecLive == Init /\ [][NextLive]_vars /\ WF_vars(SearchSteps) /\ WF_vars(RebuildSteps)

\* ----------------------------------------------------- analyzeCodeStructure
\* The class body of analyzeCodeStructure (lines 559-577).  `content` is the
\* text that follows the class header (from classStartIndex on), so index i
\* of the code is position i + 1 here and classStartIndex is 0.
MaxBody == 4   \* characters after the class header

\* A brace, or any other character.
BodyChars == {"{", "}", "m"}
Contents == UNION {[1..n -> BodyChars] : n \in 0..MaxBody}

\* A variant of the loop whose classEndIndex is the length of the content
\* when no closing brace ends the loop.
RECURSIVE ClassEndIndexToEnd(_, _, _)
ClassEndIndexToEnd(content, i, braceCount) ==
    IF i > Len(content) THEN Len(content)
    ELSE IF content[i] = "{" THEN ClassEndIndexToEnd(content, i + 1, braceCount + 1)
    ELSE IF content[i] = "}"
         THEN IF braceCount - 1 = 0 THEN i - 1
              ELSE ClassEndIndexToEnd(content, i + 1, braceCount - 1)
    ELSE ClassEndIndexToEnd(content, i + 1, braceCount)

\* The loop of lines 564-573 from position i with the counter at braceCount:
\* the 0-based index of the `}` that brings the counter to 0, or
\* classStartIndex, the initial value of classEndIndex (line 562), when the
\* loop runs to the end of the content.
RECURSIVE ClassEndIndex(_, _, _)
ClassEndIndex(content, i, braceCount) ==
    IF i > Len(content) THEN 0
    ELSE IF content[i] = "{" THEN ClassEndIndex(content, i + 1, braceCount + 1)
    ELSE IF content[i] = "}"
         THEN IF braceCount - 1 = 0 THEN i - 1
              ELSE ClassEndIndex(content, i + 1, braceCount - 1)
    ELSE ClassEndIndex(content, i + 1, braceCount)

\* content.substring(classStartIndex, classEndIndex), line 576.
ClassBody(content) == SubSeq(content, 1, ClassEndIndex(content, 1, 0))

\* classRegex has matched a class header (lines 553-555).
InitClass ==
    /\ tree = [r \in Repos |-> "ok"]
    /\ head = [r \in Repos |-> 0]
    /\ docs = [r \in Repos |-> NoSave]
    /\ s = IdleSearch
    /\ builds = [b \in BuildIds |-> NoBuild]
    /\ nextBuild = 1
    /\ rebuilt = [r \in Repos |-> FALSE]
    /\ lastDone = [r \in Repos |-> NoSave]
    /\ ld = IdleLoad
    /\ rq = NoRequest
    /\ sq = IdleStatus
    /\ sc = NoScan
    /\ fx = NoFixture
    /\ \E content \in Contents : cb = [pc |-> "header", content |-> content, body |-> <<>>]

\* Lines 559-576: the class body is extracted.
ExtractClassBody ==
    /\ cb.pc = "header"
    /\ cb' = [cb EXCEPT !.pc = "extracted", !.body = ClassBody(cb.content)]
    /\ UNCHANGED <<tree, head, docs, s, builds, nextBuild, rebuilt, lastDone, ld, fx, rq, sq, sc>>

NextClass == ExtractClassBody

SpecClass == InitClass /\ [][NextClass]_vars

\* ------------------------------------------------------- uncommitted edits
\* A repository of two files whose first file is about to be indexed.
InitEdit ==
    /\ tree = [r \in Repos |-> "ok"]
    /\ cb = NoClass
    /\ head = [r \in Repos |-> 0]
    /\ docs = [r \in Repos |-> NoSave]
    /\ s = IdleSearch
    /\ builds = [b \in BuildIds |-> NoBuild]
    /\ nextBuild = 1
    /\ rebuilt = [r \in Repos |-> FALSE]
    /\ lastDone = [r \in Repos |-> NoSave]
    /\ ld = IdleLoad
    /\ rq = NoRequest
    /\ sq = IdleStatus
    /\ sc = NoScan
    /\ \E a \in FileBodies, pattern \in Patterns :
          fx = [pc |-> "fresh", files |-> <<a, <<RooFoo>>>>,
                infos |-> <<SmallListed, SmallListed>>,
                pattern |-> pattern, index |-> NoIndex,
                cached |-> <<>>, scanned |-> <<>>, via |-> "none", maxResults |-> 0,
                response |-> NoResponse]

\* The first file is edited in the working tree and not committed: HEAD is
\* what it was, so isCacheValid (lines 304-320) still answers true.
EditFile(body) ==
    /\ fx.pc = "indexed"
    /\ body /= fx.files[1]
    /\ fx' = [fx EXCEPT !.pc = "edited", !.files[1] = body]
    /\ UNCHANGED <<tree, head, docs, s, builds, nextBuild, rebuilt, lastDone, ld, rq, sq, sc, cb>>

NextEdit ==
    \/ IndexFixture
    \/ \E body \in FileBodies : EditFile(body)
    \/ CachedSearchFixture

SpecEdit == InitEdit /\ [][NextEdit]_vars

\* ------------------------------------------------------- rebuilds that fail
\* The first repository has a complete cache of the current revision, and two
\* rebuilds of it are scheduled (by fallback searches made before the cache
\* was complete).
InitSave ==
    /\ tree = [r \in Repos |-> "ok"]
    /\ cb = NoClass
    /\ head = [r \in Repos |-> 0]
    /\ docs = [r \in Repos |-> IF r = RepoOrder[1] THEN WarmCache(0) ELSE NoSave]
    /\ s = IdleSearch
    /\ builds = [b \in BuildIds |-> [NewTimer(RepoOrder[1]) EXCEPT !.fresh = FALSE]]
    /\ nextBuild = MaxBuilds + 1
    /\ rebuilt = [r \in Repos |-> FALSE]
    /\ lastDone = [r \in Repos |-> NoSave]
    /\ ld = IdleLoad
    /\ rq = NoRequest
    /\ sq = IdleStatus
    /\ sc = NoScan
    /\ fx = NoFixture

\* The rebuilds run one after the other; the working tree is removed or
\* becomes unreadable at any moment, and any write of a save fails.  The
\* revision does not change.
NextSave ==
    \/ DeleteTree(RepoOrder[1])
    \/ BreakTree(RepoOrder[1])
    \/ \E b \in BuildIds : (\A o \in BuildIds : ~Running(o)) /\ ScanFileStructure(b)
    \/ \E b \in BuildIds : BuildSearchIndex(b)
    \/ \E b \in BuildIds : AnalyzeCodeStructure(b)
    \/ \E b \in BuildIds : GetRepositoryMetadata(b)
    \/ \E b \in BuildIds, d \in Docs : WriteOpen(b, d)
    \/ \E b \in BuildIds, d \in Docs : WriteData(b, d)
    \/ \E b \in BuildIds, d \in Docs : WriteFault(b, d)

SpecSave == InitSave /\ [][NextSave]_vars

\* ---------------------------------------------- loadRepoCache, loadRepoCachePart
\* loadRepoCache(category, repo) or loadRepoCachePart(category, repo, part) is
\* called (by the status and insight tools).
StartLoad(fn, r, part) ==
    /\ ld.pc \in {"idle", "returned"}
    /\ ld' = [IdleLoad EXCEPT !.pc = "exists", !.fn = fn, !.repo = r, !.part = part]
    /\ UNCHANGED <<tree, head, docs, s, builds, nextBuild, rebuilt, lastDone, fx, rq, sq, sc, cb>>

\* The cache directory of r exists once ensureDir has run: certainly when it
\* holds a document, possibly when it holds none.
CacheDirStates(r) ==
    IF \E d \in Docs : docs[r][d].st /= "absent" THEN {TRUE} ELSE BOOLEAN

\* loadRepoCache, lines 812-814: no cache directory, return null.
LoadPathExists ==
    /\ ld.pc = "exists" /\ ld.fn = "all"
    /\ \E e \in CacheDirStates(ld.repo) :
          ld' = IF e THEN [ld EXCEPT !.pc = "read", !.dir = TRUE]
                ELSE [ld EXCEPT !.pc = "returned", !.result = "null"]
    /\ UNCHANGED <<tree, head, docs, s, builds, nextBuild, rebuilt, lastDone, fx, rq, sq, sc, cb>>

\* A variant of the read whose missing document is loaded as an empty value
\* instead of failing the load.
LoadReadLenient(d) ==
    /\ ld.pc = "read" /\ ld.got[d].st = "unread"
    /\ LET doc == docs[ld.repo][d]
           got == [ld.got EXCEPT ![d] = doc]
       IN ld' = IF doc.st = "partial"
                THEN [ld EXCEPT !.pc = "returned", !.got = got, !.result = "null"]
                ELSE IF \A e \in Docs : got[e].st /= "unread"
                THEN [ld EXCEPT !.pc = "returned", !.got = got, !.result = "cache"]
                ELSE [ld EXCEPT !.got = got]
    /\ UNCHANGED <<tree, head, docs, s, builds, nextBuild, rebuilt, lastDone, fx, rq, sq, sc, cb>>

\* loadRepoCache, lines 817-833: one of the four readFile(...).then(JSON.parse)
\* of Promise.all.  A missing file rejects, a truncated one makes JSON.parse
\* throw: Promise.all rejects and the catch returns null.  After the fourth
\* document the four are returned.
LoadRead(d) ==
    /\ ld.pc = "read" /\ ld.got[d].st = "unread"
    /\ LET doc == docs[ld.repo][d]
           got == [ld.got EXCEPT ![d] = doc]
       IN ld' = IF doc.st /= "ok"
                THEN [ld EXCEPT !.pc = "returned", !.got = got, !.result = "null"]
                ELSE IF \A e \in Docs : got[e].st /= "unread"
                THEN [ld EXCEPT !.pc = "returned", !.got = got, !.result = "cache"]
                ELSE [ld EXCEPT !.got = got]
    /\ UNCHANGED <<tree, head, docs, s, builds, nextBuild, rebuilt, lastDone, fx, rq, sq, sc, cb>>

\* loadRepoCachePart, lines 848-850: the document's file does not exist, null.
PartPathExists ==
    /\ ld.pc = "exists" /\ ld.fn = "part"
    /\ ld' = IF docs[ld.repo][ld.part].st = "absent"
             THEN [ld EXCEPT !.pc = "returned", !.got[ld.part] = Absent, !.result = "null"]
             ELSE [ld EXCEPT !.pc = "pread", !.dir = TRUE]
    /\ UNCHANGED <<tree, head, docs, s, builds, nextBuild, rebuilt, lastDone, fx, rq, sq, sc, cb>>

\* loadRepoCachePart, lines 853-857: JSON.parse(await readFile(...)); a
\* document that does not parse is caught and null is returned.
PartRead ==
    /\ ld.pc = "pread"
    /\ LET doc == docs[ld.repo][ld.part]
       IN ld' = [ld EXCEPT !.pc = "returned", !.got[ld.part] = doc,
                           !.result = IF doc.st = "ok" THEN "doc" ELSE "null"]
    /\ UNCHANGED <<tree, head, docs, s, builds, nextBuild, rebuilt, lastDone, fx, rq, sq, sc, cb>>

\* The first repository's cache directory holds anything an earlier run can
\* have left, and one rebuild of it is scheduled.
InitLoad ==
    /\ tree = [r \in Repos |-> "ok"]
    /\ cb = NoClass
    /\ head = [r \in Repos |-> 0]
    /\ \E f \in DiskStates :
          docs = [r \in Repos |-> IF r = RepoOrder[1] THEN f ELSE NoSave]
    /\ s = IdleSearch
    /\ builds = [b \in BuildIds |->
                    IF b = 1 THEN [NewTimer(RepoOrder[1]) EXCEPT !.fresh = FALSE] ELSE NoBuild]
    /\ nextBuild = MaxBuilds + 1
    /\ rebuilt = [r \in Repos |-> FALSE]
    /\ lastDone = [r \in Repos |-> NoSave]
    /\ ld = IdleLoad
    /\ rq = NoRequest
    /\ sq = IdleStatus
    /\ sc = NoScan
    /\ fx = NoFixture

\* Loads of the first repository's cache while the rebuild runs and saves.
NextLoad ==
    \/ \E part \in Docs : StartLoad("all", RepoOrder[1], part)
    \/ \E part \in Docs : StartLoad("part", RepoOrder[1], part)
    \/ LoadPathExists
    \/ \E d \in Docs : LoadRead(d)
    \/ PartPathExists
    \/ PartRead
    \/ \E b \in BuildIds : ScanFileStructure(b)
    \/ \E b \in BuildIds : BuildSearchIndex(b)
    \/ \E b \in BuildIds : AnalyzeCodeStructure(b)
    \/ \E b \in BuildIds : GetRepositoryMetadata(b)
    \/ \E b \in BuildIds, d \in Docs : WriteOpen(b, d)
    \/ \E b \in BuildIds, d \in Docs : WriteData(b, d)

SpecLoad == InitLoad /\ [][NextLoad]_vars

\* ------------------------------------------------------ getEnhancedRepoStatus
\* getEnhancedRepoStatus(category, repoName), lines 870-938, one action per
\* await.  sq.fields is the set of keys of the object returned.
StartStatus(r) ==
    /\ sq.pc = "idle"
    /\ sq' = [sq EXCEPT !.pc = "exists", !.repo = r, !.docs0 = docs[r]]
    /\ UNCHANGED <<tree, head, docs, s, builds, nextBuild, rebuilt, lastDone, ld, fx, rq, sc, cb>>

\* exists: await fs.pathExists(repoPath); if (!result.exists) return result
StatusPathExists ==
    /\ sq.pc = "exists"
    /\ IF tree[sq.repo] = "deleted"
       THEN sq' = [sq EXCEPT !.pc = "returned", !.fields = {"exists", "path"}]
       ELSE sq' = [sq EXCEPT !.pc = "git"]
    /\ UNCHANGED <<tree, head, docs, s, builds, nextBuild, rebuilt, lastDone, ld, fx, rq, sc, cb>>

\* await Promise.all([git.status(), git.branch(), git.log({maxCount: 1})]):
\* it rejects when the working tree is gone, and the catch of line 930
\* answers {exists: false, path, error}.
StatusGit ==
    /\ sq.pc = "git"
    /\ IF tree[sq.repo] = "deleted"
       THEN sq' = [sq EXCEPT !.pc = "returned", !.fields = {"exists", "path", "error"}]
       ELSE sq' = [sq EXCEPT !.pc = "vmeta", !.fields = LiveFields]
    /\ UNCHANGED <<tree, head, docs, s, builds, nextBuild, rebuilt, lastDone, ld, fx, rq, sc, cb>>

\* A variant of the test of line 912 that takes the branch whatever
\* isCacheValid answered.
LoadsCachedPartsAlways(valid) == TRUE

\* if (await isCacheValid(category, repoName)), line 912
LoadsCachedParts(valid) == valid

\* isCacheValid, lines 306-309, called from line 912: an absent or
\* unparsable metadata.json ends the check with false.
StatusValidReadMetadata ==
    /\ sq.pc = "vmeta"
    /\ LET md == docs[sq.repo]["metadata"]
       IN IF md.st = "ok"
          THEN sq' = [sq EXCEPT !.pc = "vgit", !.md = md]
          ELSE sq' = [sq EXCEPT !.md = md, !.checked = TRUE, !.valid = FALSE,
                                !.pc = IF LoadsCachedParts(FALSE) THEN "lmeta" ELSE "returned"]
    /\ UNCHANGED <<tree, head, docs, s, builds, nextBuild, rebuilt, lastDone, ld, fx, rq, sc, cb>>

\* isCacheValid, lines 312-315: git rev-parse HEAD and the comparison.
StatusValidRevparse ==
    /\ sq.pc = "vgit"
    /\ LET ok == CacheValidResult(sq.md, tree[sq.repo], head[sq.repo])
       IN sq' = [sq EXCEPT !.checked = TRUE, !.valid = ok,
                           !.pc = IF LoadsCachedParts(ok) THEN "lmeta" ELSE "returned"]
    /\ UNCHANGED <<tree, head, docs, s, builds, nextBuild, rebuilt, lastDone, ld, fx, rq, sc, cb>>

\* loadRepoCachePart(category, repoName, 'metadata'), line 913: null for an
\* absent or unparsable document.
StatusLoadMetadata ==
    /\ sq.pc = "lmeta"
    /\ sq' = [sq EXCEPT !.pc = "lcode", !.got["metadata"] = docs[sq.repo]["metadata"]]
    /\ UNCHANGED <<tree, head, docs, s, builds, nextBuild, rebuilt, lastDone, ld, fx, rq, sc, cb>>

\* loadRepoCachePart(category, repoName, 'codeStructure'), line 914, then
\* if (metadata) result.stats, result.packageInfo; if (codeStructure)
\* result.codeInsights; return result.
StatusLoadCodeStructure ==
    /\ sq.pc = "lcode"
    /\ LET cs == docs[sq.repo]["codeStructure"]
       IN sq' = [sq EXCEPT !.pc = "returned", !.got["codeStructure"] = cs,
                           !.fields = @ \cup (IF sq.got["metadata"].st = "ok"
                                              THEN {"stats", "packageInfo"} ELSE {})
                                        \cup (IF cs.st = "ok" THEN {"codeInsights"} ELSE {})]
    /\ UNCHANGED <<tree, head, docs, s, builds, nextBuild, rebuilt, lastDone, ld, fx, rq, sc, cb>>

\* Status queries over any cache on disk, the environment changing the
\* working tree meanwhile.
NextStatus ==
    \/ \E r \in Repos : Commit(r)
    \/ \E r \in Repos : DeleteTree(r)
    \/ \E r \in Repos : BreakTree(r)
    \/ \E r \in Repos : StartStatus(r)
    \/ StatusPathExists
    \/ StatusGit
    \/ StatusValidReadMetadata
    \/ StatusValidRevparse
    \/ StatusLoadMetadata
    \/ StatusLoadCodeStructure

SpecStatus == InitDisk /\ [][NextStatus]_vars

\* ------------------------------------------------- search_code, repo_status
\* The two tool handlers against a registry of two categories.  A pair
\* <<category, name>> stands for the directory <base>/<category>/<name>.
CategoryOrder == <<"c1", "c2">>
Categories == {CategoryOrder[k] : k \in 1..Len(CategoryOrder)}

\* Object.keys(repositories[category])
RegistryOrder(c) == IF c = "c1" THEN <<"r1", "r2">> ELSE <<"r3">>
Registered(c, r) == c \in Categories /\ \E k \in 1..Len(RegistryOrder(c)) : RegistryOrder(c)[k] = r
RegisteredPairs == {p \in Categories \X {"r1", "r2", "r3"} : Registered(p[1], p[2])}

\* What a request names: a registered or an unknown category, a registered
\* or an unknown repository, or none.
CategoryArgs == {NoArg, "c1", "c2", "cX"}
RepoArgs == {NoArg, "r1", "r3", "rX"}

\* The directories that may exist below the base directory: the working
\* trees of registered repositories, and directories no registry entry
\* names (a clone whose entry was removed; the name '.').
DiskPairs == {<<"c1", "r1">>, <<"c1", "r2">>, <<"c2", "r3">>, <<"c1", "rX">>, <<"c2", "r1">>,
              <<"cX", "rX">>}

\* The directories whose cache is valid when the request arrives.
ValidPairs == {<<"c1", "r1">>, <<"c1", "rX">>}

InitRequest ==
    /\ tree = [r \in Repos |-> "ok"]
    /\ cb = NoClass
    /\ head = [r \in Repos |-> 0]
    /\ docs = [r \in Repos |-> NoSave]
    /\ s = IdleSearch
    /\ builds = [b \in BuildIds |-> NoBuild]
    /\ nextBuild = 1
    /\ rebuilt = [r \in Repos |-> FALSE]
    /\ lastDone = [r \in Repos |-> NoSave]
    /\ ld = IdleLoad
    /\ fx = NoFixture
    /\ sq = IdleStatus
    /\ sc = NoScan
    /\ \E disk \in SUBSET DiskPairs, valid \in SUBSET ValidPairs :
          /\ valid \subseteq disk
          /\ rq = [NoRequest EXCEPT !.disk = disk, !.valid = valid]

\* A CallTool request arrives (lines 533, 535-537, 673-677).
ToolRequest(tool, category, repo) ==
    /\ rq.pc = "none"
    /\ rq' = [rq EXCEPT !.pc = "received", !.tool = tool, !.category = category, !.repo = repo]
    /\ UNCHANGED <<tree, head, docs, s, builds, nextBuild, rebuilt, lastDone, ld, fx, sq, sc, cb>>

\* The pairs of one category the search visits (config.ts lines 956-961): none
\* for a category the registry lacks, the pair of repoFilter if one is given,
\* else the registered repositories.
PairsOfCategory(c, repoFilter) ==
    IF c \notin Categories THEN <<>>
    ELSE IF repoFilter /= NoArg THEN << <<c, repoFilter>> >>
    ELSE [k \in 1..Len(RegistryOrder(c)) |-> <<c, RegistryOrder(c)[k]>>]

RECURSIVE PairsOfCategories(_, _, _)
PairsOfCategories(cs, k, repoFilter) ==
    IF k > Len(cs) THEN <<>>
    ELSE PairsOfCategory(cs[k], repoFilter) \o PairsOfCategories(cs, k + 1, repoFilter)

\* The pairs searchCodeWithCache visits, in order (config.ts lines 953-963).
SearchPairs(categoryFilter, repoFilter) ==
    PairsOfCategories(IF categoryFilter /= NoArg THEN <<categoryFilter>> ELSE CategoryOrder,
                      1, repoFilter)

\* The search_code handler calls searchCodeWithCache (lines 683-690); the
\* pattern is given.
SearchCodeRequest ==
    /\ rq.pc = "received" /\ rq.tool = "search_code"
    /\ rq' = [rq EXCEPT !.pc = "search", !.todo = SearchPairs(rq.category, rq.repo)]
    /\ UNCHANGED <<tree, head, docs, s, builds, nextBuild, rebuilt, lastDone, ld, fx, sq, sc, cb>>

\* One round of the loop over the repositories (config.ts lines 963-1137): a
\* path that does not exist is skipped; with a valid cache the index is read,
\* otherwise the directory is scanned and a rebuild scheduled.
SearchVisit ==
    /\ rq.pc = "search" /\ Len(rq.todo) > 0
    /\ LET pair == Head(rq.todo)
       IN IF pair \notin rq.disk
          THEN rq' = [rq EXCEPT !.todo = Tail(@)]
          ELSE rq' = [rq EXCEPT !.todo = Tail(@), !.read = @ \cup {pair},
                                !.scheduled = IF pair \in rq.valid THEN @ ELSE @ \cup {pair}]
    /\ UNCHANGED <<tree, head, docs, s, builds, nextBuild, rebuilt, lastDone, ld, fx, sq, sc, cb>>

\* return results (config.ts line 1140), JSON.stringify(results) (lines 692-697).
SearchAnswer ==
    /\ rq.pc = "search" /\ Len(rq.todo) = 0
    /\ rq' = [rq EXCEPT !.pc = "answered", !.isError = FALSE]
    /\ UNCHANGED <<tree, head, docs, s, builds, nextBuild, rebuilt, lastDone, ld, fx, sq, sc, cb>>

\* The repo_status handler (lines 534-565): the throw of lines 544 and 552 is
\* caught at line 703 and answered with isError: true.
RepoStatusRequest ==
    /\ rq.pc = "received" /\ rq.tool = "repo_status"
    /\ LET c == rq.category
           r == rq.repo
       IN IF c /= NoArg /\ r /= NoArg
          THEN IF ~Registered(c, r)
               THEN rq' = [rq EXCEPT !.pc = "answered", !.isError = TRUE]
               ELSE rq' = [rq EXCEPT !.pc = "status", !.todo = << <<c, r>> >>]
          ELSE IF c /= NoArg
               THEN IF c \notin Categories
                    THEN rq' = [rq EXCEPT !.pc = "answered", !.isError = TRUE]
                    ELSE rq' = [rq EXCEPT !.pc = "status", !.todo = PairsOfCategory(c, NoArg)]
               ELSE rq' = [rq EXCEPT !.pc = "status",
                                     !.todo = PairsOfCategories(CategoryOrder, 1, NoArg)]
    /\ UNCHANGED <<tree, head, docs, s, builds, nextBuild, rebuilt, lastDone, ld, fx, sq, sc, cb>>

\* results[`${c}/${r}`] = await getEnhancedRepoStatus(c, r)
StatusVisit ==
    /\ rq.pc = "status" /\ Len(rq.todo) > 0
    /\ rq' = [rq EXCEPT !.todo = Tail(@), !.keys = @ \cup {Head(rq.todo)}]
    /\ UNCHANGED <<tree, head, docs, s, builds, nextBuild, rebuilt, lastDone, ld, fx, sq, sc, cb>>

\* JSON.stringify(results) (lines 567-572).
StatusAnswer ==
    /\ rq.pc = "status" /\ Len(rq.todo) = 0
    /\ rq' = [rq EXCEPT !.pc = "answered", !.isError = FALSE]
    /\ UNCHANGED <<tree, head, docs, s, builds, nextBuild, rebuilt, lastDone, ld, fx, sq, sc, cb>>

NextRequest ==
    \/ \E tool \in {"search_code", "repo_status"}, c \in CategoryArgs, r \in RepoArgs :
          ToolRequest(tool, c, r)
    \/ SearchCodeRequest
    \/ SearchVisit
    \/ SearchAnswer
    \/ RepoStatusRequest
    \/ StatusVisit
    \/ StatusAnswer

SpecRequest == InitRequest /\ [][NextRequest]_vars

\* ---------------------------------------------------------- scanFileStructure
\* scanFileStructure on a working tree of paths.  A path is the sequence of
\* its segments relative to the repository root; the root itself is the
\* empty path (path.dirname gives '.').
MaxRemovals == 1   \* files or directories removed while the scan runs

Root == <<>>

\* The paths a working tree can hold, in the order globby lists them.
PathOrder == << <<"a.ts">>, <<"src", "b.ts">>, <<"src", "lib", "c.ts">>, <<"src", ".env">> >>
Paths == {PathOrder[k] : k \in 1..Len(PathOrder)}

\* dot: false leaves out every path with a segment that starts with a dot.
HiddenNames == {".env"}
Hidden(p) == \E k \in 1..Len(p) : p[k] \in HiddenNames

\* path.dirname(p) and path.basename(p)
Dirname(p) == SubSeq(p, 1, Len(p) - 1)
Basename(p) == p[Len(p)]

\* A variant of WalkUp that adds the directory of the file and stops.
WalkUpParentOnly(dirPath) == IF dirPath = Root THEN <<>> ELSE <<dirPath>>

\* let dirPath = path.dirname(file); while (dirPath && dirPath !== '.') {
\* directories.add(dirPath); dirPath = path.dirname(dirPath) }
RECURSIVE WalkUp(_)
WalkUp(dirPath) ==
    IF dirPath = Root THEN <<>> ELSE <<dirPath>> \o WalkUp(Dirname(dirPath))

\* Set.add of every entry of `walk`, the set kept in insertion order.
RECURSIVE AddAll(_, _, _)
AddAll(dirs, walk, k) ==
    IF k > Len(walk) THEN dirs
    ELSE AddAll(IF \E j \in 1..Len(dirs) : dirs[j] = walk[k] THEN dirs ELSE Append(dirs, walk[k]),
                walk, k + 1)

\* The directories a set of files lies in, the root left out.
DirsOf(files) == UNION {{SubSeq(f, 1, k) : k \in 1..(Len(f) - 1)} : f \in files}

\* fs.readdir(dir) with fs.stat of every item: the names of the files and of
\* the directories directly in `dir`.
Listing(disk, dir) ==
    [files |-> {Basename(f) : f \in {g \in disk.files : Dirname(g) = dir}},
     subdirectories |-> {Basename(d) : d \in {e \in disk.dirs : Dirname(e) = dir}}]

\* Where the scan goes after file i - 1 and directory j - 1: the next stat,
\* the next readdir, or the return of the structure.
ScanPc(listed, i, dirs, j) ==
    IF i <= Len(listed) THEN "stat" ELSE IF j <= Len(dirs) THEN "readdir" ELSE "returned"

InitScan ==
    /\ tree = [r \in Repos |-> "ok"]
    /\ cb = NoClass
    /\ head = [r \in Repos |-> 0]
    /\ docs = [r \in Repos |-> NoSave]
    /\ s = IdleSearch
    /\ builds = [b \in BuildIds |-> NoBuild]
    /\ nextBuild = 1
    /\ rebuilt = [r \in Repos |-> FALSE]
    /\ lastDone = [r \in Repos |-> NoSave]
    /\ ld = IdleLoad
    /\ fx = NoFixture
    /\ rq = NoRequest
    /\ sq = IdleStatus
    /\ \E files \in SUBSET Paths :
          sc = [pc |-> "idle", disk |-> [files |-> files, dirs |-> DirsOf(files)],
                removals |-> 0, listed |-> <<>>, i |-> 1, dirs |-> <<>>, j |-> 1,
                files |-> {}, directories |-> <<>>]

\* await globby(['**/*'], {gitignore: true, dot: false, onlyFiles: true})
ScanGlobby ==
    /\ sc.pc = "idle"
    /\ LET listed == SelectSeq(PathOrder, LAMBDA p : p \in sc.disk.files /\ ~Hidden(p))
       IN sc' = [sc EXCEPT !.listed = listed, !.pc = ScanPc(listed, 1, <<>>, 1)]
    /\ UNCHANGED <<tree, head, docs, s, builds, nextBuild, rebuilt, lastDone, ld, fx, rq, sq, cb>>

\* One round of the loop over the files: await fs.stat(filePath), which
\* rejects for a file that is gone, then structure.files[file] = ... and the
\* walk up the directories of the file.
ScanStat ==
    /\ sc.pc = "stat"
    /\ LET file == sc.listed[sc.i]
           dirs == AddAll(sc.dirs, WalkUp(Dirname(file)), 1)
       IN IF file \notin sc.disk.files
          THEN sc' = [sc EXCEPT !.pc = "rejected"]
          ELSE sc' = [sc EXCEPT !.files = @ \cup {file}, !.dirs = dirs, !.i = @ + 1,
                                !.pc = ScanPc(sc.listed, sc.i + 1, dirs, 1)]
    /\ UNCHANGED <<tree, head, docs, s, builds, nextBuild, rebuilt, lastDone, ld, fx, rq, sq, cb>>

\* One round of the loop over the directories: await fs.readdir(dirPath),
\* which rejects for a directory that is gone, the stat of its items, then
\* structure.directories[dir] = {files, subdirectories}.
ScanReaddir ==
    /\ sc.pc = "readdir"
    /\ LET dir == sc.dirs[sc.j]
       IN IF dir \notin sc.disk.dirs
          THEN sc' = [sc EXCEPT !.pc = "rejected"]
          ELSE sc' = [sc EXCEPT !.directories = Append(@, [dir |-> dir, entry |-> Listing(sc.disk, dir)]),
                                !.j = @ + 1,
                                !.pc = ScanPc(sc.listed, sc.i, sc.dirs, sc.j + 1)]
    /\ UNCHANGED <<tree, head, docs, s, builds, nextBuild, rebuilt, lastDone, ld, fx, rq, sq, cb>>

\* The environment removes a file while the scan runs.
Unlink(p) ==
    /\ sc.pc \in {"idle", "stat", "readdir"}
    /\ sc.removals < MaxRemovals
    /\ p \in sc.disk.files
    /\ sc' = [sc EXCEPT !.disk.files = @ \ {p}, !.removals = @ + 1]
    /\ UNCHANGED <<tree, head, docs, s, builds, nextBuild, rebuilt, lastDone, ld, fx, rq, sq, cb>>

\* The environment removes a directory and all below it while the scan runs.
Rmdir(d) ==
    /\ sc.pc \in {"idle", "stat", "readdir"}
    /\ sc.removals < MaxRemovals
    /\ d \in sc.disk.dirs
    /\ LET under(p) == Len(p) >= Len(d) /\ SubSeq(p, 1, Len(d)) = d
       IN sc' = [sc EXCEPT !.disk = [files |-> {f \in sc.disk.files : ~under(f)},
                                     dirs |-> {e \in sc.disk.dirs : ~under(e)}],
                           !.removals = @ + 1]
    /\ UNCHANGED <<tree, head, docs, s, builds, nextBuild, rebuilt, lastDone, ld, fx, rq, sq, cb>>

NextScan ==
    \/ ScanGlobby
    \/ ScanStat
    \/ ScanReaddir
    \/ \E p \in Paths : Unlink(p)
    \/ \E d \in DirsOf(Paths) : Rmdir(d)

SpecScan == InitScan /\ [][NextScan]_vars

\* ================================================================== claims

\* C1: in every reachable state, whenever isCacheValid(r) is true the
\* persisted structure.json, searchIndex.json and codeStructure.json of r are
\* complete documents built from the revision that is checked out now.
C1_ValidCacheIsCurrent ==
    \A r \in Repos :
        IsCacheValid(r) =>
            \A d \in IndexDocs : docs[r][d].st = "ok" /\ docs[r][d].from = head[r]

\* C2: every persisted metadata document carries as lastCommitHash the
\* revision the working tree had when scanFileStructure read it.
C2_HashIsScannedRevision ==
    \A r \in Repos :
        docs[r]["metadata"].st = "ok" =>
            docs[r]["metadata"].hash = docs[r]["metadata"].from

\* C3: the step that completes a successful rebuild of r, with the revision
\* unchanged since its scan, leaves isCacheValid(r) true; and while the
\* revision of r has changed and no rebuild has completed since,
\* isCacheValid(r) is false.
C3_ValidityFollowsRebuild ==
    [][ /\ \A b \in BuildIds :
              ( /\ builds[b].pc = "save"
                /\ builds'[b].pc = "done"
                /\ builds[b].sFrom = head'[builds[b].repo]
                /\ tree'[builds[b].repo] = "ok" )
              => IsCacheValid(builds[b].repo)'
        /\ \A r \in Repos :
              (head'[r] > 0 /\ ~rebuilt'[r]) => ~IsCacheValid(r)' ]_vars

\* C4: the result of isCacheValid is true exactly when the metadata document
\* it read is complete, git answered, and the stored hash equals the HEAD
\* read; it is false in every other case, whatever the other three documents
\* hold.
C4_ValidIffMetadataMatchesHead ==
    s.pc \in {"load", "glob"} =>
        (s.valid <=> (s.md.st = "ok" /\ s.git = "ok" /\ s.md.hash = s.hd))

\* C4 witness: isCacheValid has answered true for a repository whose
\* searchIndex.json and structure.json are not usable.
C4_Witness ==
    /\ s.pc = "load"
    /\ s.valid
    /\ docs[s.sel[s.i]]["searchIndex"].st /= "ok"
    /\ docs[s.sel[s.i]]["structure"].st = "absent"

\* C5: a repository whose metadata matched but whose searchIndex.json could
\* not be loaded is searched by the direct scan, so the answer holds its
\* literal matches.
C5_UnusableIndexFallsBack ==
    s.pc = "returned" =>
        \A r \in s.unusable :
            tree[r] = "ok" =>
                \E k \in 1..Len(Answer) : Answer[k].repo = r /\ Answer[k].via = "scan"

\* C6: once every rebuild of r has completed, the four persisted documents
\* are the four the save that finished last wrote.
C6_LastSaveWins ==
    \A r \in Repos :
        ( /\ \E b \in BuildIds : builds[b].repo = r /\ builds[b].pc = "done"
          /\ \A b \in BuildIds : builds[b].repo = r => builds[b].pc = "done" )
        => docs[r] = lastDone[r]

\* C7: the documents a reader has read are complete documents, never truncated.
C7_ReadersSeeWholeDocuments ==
    s.md.st /= "partial" /\ s.ix.st /= "partial"

\* C8: when a search has ended, every repository that took the invalid-cache
\* branch was scanned and exactly one rebuild was scheduled for it, and its
\* literal matches are in the answer.
C8_FallbackScansAndSchedulesOnce ==
    s.pc \in {"returned", "aborted"} =>
        \A r \in s.fell :
            /\ Scheduled(r) = 1
            /\ tree[r] = "ok" =>
                 \E k \in 1..Len(Answer) : Answer[k].repo = r /\ Answer[k].via = "scan"

\* C9: while the search is still being processed, no rebuild it has
\* scheduled has started.
C9_RebuildAfterReturn ==
    Searching => \A b \in BuildIds : builds[b].fresh => builds[b].pc = "timer"

\* C10: when a search has ended, every repository whose matches were
\* collected has them in the answer, whatever happened to another repository.
C10_FailureIsIsolated ==
    s.pc \in {"returned", "aborted"} =>
        \A r \in ReposIn(s.results) : \E k \in 1..Len(Answer) : Answer[k].repo = r

\* The groups the cached lookup of the current repository has just appended.
NewGroups == SubSeq(s'.results, Len(s.results) + 1, Len(s'.results))

\* C11: in every cached lookup of a repository whose files can be read, the
\* regex pass over `terms` contributes exactly when the exact-term lookup of
\* that repository contributed nothing, whatever earlier repositories of the
\* query have put in the result list.  (Every index of the model has a term
\* the pattern matches, so the pass contributes whenever it is attempted.)
C11_FuzzyIffExactEmptyPerRepo ==
    [][ (s.pc = "cached" /\ s'.pc \in {"exists", "returned"} /\ tree[s.sel[s.i]] = "ok") =>
            ( (\E k \in 1..Len(NewGroups) : NewGroups[k].via = "fuzzy")
              <=> (\A k \in 1..Len(NewGroups) : NewGroups[k].via /= "exact") ) ]_vars

\* C12 as stated: the answer of one query never holds both groups of the
\* exact-term lookup and groups of the regex pass.
C12_NeverMixedInQuery ==
    s.pc = "returned" =>
        ~ ( /\ \E k \in 1..Len(Answer) : Answer[k].via = "exact"
            /\ \E k \in 1..Len(Answer) : Answer[k].via = "fuzzy" )

\* C12 amended: the groups one repository contributes to a query never hold
\* both groups of the exact-term lookup and groups of the regex pass.
C12_NeverMixedInRepo ==
    \A r \in Repos :
        ~ ( /\ \E k \in 1..Len(s.results) : s.results[k].repo = r /\ s.results[k].via = "exact"
            /\ \E k \in 1..Len(s.results) : s.results[k].repo = r /\ s.results[k].via = "fuzzy" )

\* C12 witness: a query answered with fuzzy groups of one repository and
\* exact groups of another.
C12_Witness ==
    /\ s.pc = "returned"
    /\ \E k \in 1..Len(Answer) : Answer[k].via = "exact"
    /\ \E k \in 1..Len(Answer) : Answer[k].via = "fuzzy"

\* The (file, line) pairs a result list reports.
MatchSet(res) ==
    UNION {{<<res[g].file, res[g].matches[m].line>> : m \in 1..Len(res[g].matches)} : g \in 1..Len(res)}

\* C13: on the same content and pattern, the direct scan and the cached path
\* report the same set of (file, line) matches.
C13_ScanEqualsCached ==
    fx.pc \in {"scanned", "answered"} => MatchSet(fx.cached) = MatchSet(fx.scanned)

\* What searchCodeWithCache handed to the handler, and the files it matched.
Handed == IF fx.via = "cache" THEN fx.cached ELSE fx.scanned
MatchingFiles == {Handed[g].file : g \in 1..Len(Handed)}

\* C14: with N matching files and maxResults = M the response holds
\* min(N, M) groups, truncated is true exactly when N > M, and omittedCount
\* is max(0, N - M).
C14_ResponseIsCapped ==
    fx.pc = "answered" =>
        LET N == Cardinality(MatchingFiles)
            M == fx.maxResults
        IN /\ Len(fx.response.groups) = (IF N < M THEN N ELSE M)
           /\ (fx.response.truncated = "true") <=> (N > M)
           /\ fx.response.omittedCount = (IF N > M THEN N - M ELSE 0)

\* The number of matches the response reports for a file.
RECURSIVE MatchCountFrom(_, _, _)
MatchCountFrom(res, g, file) ==
    IF g > Len(res) THEN 0
    ELSE (IF res[g].file = file THEN Len(res[g].matches) ELSE 0) + MatchCountFrom(res, g + 1, file)

\* C15: the groups of the response are ordered by descending number of
\* matches in their file; files with equal counts keep discovery order.
C15_RankedByMatchCount ==
    fx.pc = "answered" =>
        \A i, j \in 1..Len(fx.response.groups) :
            i < j =>
                LET gi == fx.response.groups[i]
                    gj == fx.response.groups[j]
                    ci == MatchCountFrom(fx.response.groups, 1, gi.file)
                    cj == MatchCountFrom(fx.response.groups, 1, gj.file)
                IN ci > cj \/ (ci = cj /\ FileIndex(gi.file) <= FileIndex(gj.file))

\* A result list with one group per file, each with its matches in line order.
Merged(res) ==
    /\ \A i, j \in 1..Len(res) : i /= j => res[i].file /= res[j].file
    /\ \A g \in 1..Len(res) :
          \A m \in 1..(Len(res[g].matches) - 1) :
              res[g].matches[m].line < res[g].matches[m + 1].line

\* C16: on the cached exact path, the cached fuzzy path and the fallback
\* path alike, the result list has at most one group per file, holding the
\* file's matches as one list in line order.
C16_OneGroupPerFile ==
    fx.pc \in {"scanned", "answered"} => Merged(fx.cached) /\ Merged(fx.scanned)

\* The context of a match at 1-based line L of a file of n lines is the run
\* max(1, L-3) .. min(n, L+3), with isMatch exactly on L.
GoodContext(m, n) ==
    LET L == m.line
        lo == IF L - 3 > 1 THEN L - 3 ELSE 1
        hi == IF L + 3 < n THEN L + 3 ELSE n
        c == m.context
    IN /\ Len(c) = hi - lo + 1
       /\ \A k \in 1..Len(c) : c[k].line = lo + k - 1 /\ c[k].line >= 1 /\ c[k].line <= n
       /\ Len(c) <= 7
       /\ L = 1 => Len(c) <= 4
       /\ \A k \in 1..Len(c) : c[k].isMatch <=> c[k].line = L
       /\ Cardinality({k \in 1..Len(c) : c[k].isMatch}) = 1

AllGoodContexts(res) ==
    \A g \in 1..Len(res) : \A m \in 1..Len(res[g].matches) :
        GoodContext(res[g].matches[m], Len(fx.files[FileIndex(res[g].file)]))

C20_RebuildAlwaysRewrites ==
    [][ \A b \in BuildIds :
          (builds[b].pc /= "done" /\ builds'[b].pc = "done")
          => /\ builds[b].pc = "save"
             /\ builds[b].sFrom /= NoVer
             /\ \A d \in Docs : docs'[builds[b].repo][d] = DocContent(b, d) ]_vars

\* C20 witness: a rebuild is rewriting the documents of a repository whose
\* cache is valid; it has written structure.json and not yet metadata.json.
C20_Witness ==
    \E b \in BuildIds :
        /\ builds[b].pc = "save"
        /\ builds[b].w["structure"] = "done"
        /\ builds[b].w["metadata"] = "todo"
        /\ IsCacheValid(builds[b].repo)

\* C19: loadRepoCache returns null when the cache directory does not exist
\* or any document it read was missing or not valid JSON, and otherwise the
\* four documents; loadRepoCachePart returns null for a missing or malformed
\* document and otherwise the document; neither ever ends in another way.
C19_LoadFailsClosed ==
    ld.pc = "returned" =>
        /\ ld.fn = "all" =>
              /\ ld.result \in {"null", "cache"}
              /\ ld.result = "cache" <=> (ld.dir /\ \A d \in Docs : ld.got[d].st = "ok")
        /\ ld.fn = "part" =>
              /\ ld.result \in {"null", "doc"}
              /\ ld.result = "doc" <=> ld.got[ld.part].st = "ok"

\* C19 witness: loadRepoCache has returned null after reading a complete
\* metadata.json and a truncated searchIndex.json.
C19_Witness ==
    /\ ld.pc = "returned" /\ ld.fn = "all" /\ ld.result = "null"
    /\ ld.got["metadata"].st = "ok"
    /\ ld.got["searchIndex"].st = "partial"

\* The first and the last line a group reports.
FirstLine(g) == g.matches[1].line
LastLine(g) == g.matches[Len(g.matches)].line

\* A result list in the order file, then line: the groups of one file are
\* contiguous and in the order of the files, and the lines of a file ascend
\* within a group and from one group to the next.
InDiscoveryOrder(res) ==
    /\ \A g \in 1..Len(res) : \A m \in 1..(Len(res[g].matches) - 1) :
          res[g].matches[m].line <= res[g].matches[m + 1].line
    /\ \A g \in 1..Len(res) : \A h \in (g + 1)..Len(res) :
          /\ FileIndex(res[g].file) <= FileIndex(res[h].file)
          /\ res[g].file = res[h].file => LastLine(res[g]) <= FirstLine(res[h])

\* C24: the unranked results of the cached path (exact or fuzzy) and of the
\* fallback scan are in discovery order: the groups of one file contiguous,
\* files in the order they were met, lines ascending within a file.
C24_DiscoveryOrder ==
    fx.pc \in {"scanned", "answered"} =>
        InDiscoveryOrder(fx.cached) /\ InDiscoveryOrder(fx.scanned)

\* The index of the fixture has been built.
Indexed == fx.pc \in {"indexed", "cached", "scanned", "answered"}

\* No two postings of one index are of the same token and the same file.
OnePostingPerFile(ix) ==
    \A j \in 1..Len(ix) : \A k \in (j + 1)..Len(ix) :
        ~(ix[j].term = ix[k].term /\ ix[j].file = ix[k].file)

\* C26: under every token key of exactTerms and of terms a file appears in
\* at most one posting.
C26_OnePostingPerTokenAndFile ==
    Indexed => OnePostingPerFile(fx.index.exactTerms) /\ OnePostingPerFile(fx.index.terms)

\* C26 witness: the index is built of a file in which a token occurs on two
\* lines, once as an identifier and once as a part of a longer one, so that
\* both indexes met the (token, file) pair again.
C26_Witness ==
    /\ Indexed
    /\ \E k \in 1..Len(fx.index.exactTerms) : fx.index.exactTerms[k].occurrences >= 2
    /\ \E k \in 1..Len(fx.index.terms) : Len(fx.index.terms[k].positions) >= 2

\* How often `term` is among the identifiers of a line.
TimesOnLine(line, term) == Len(SelectSeq(Identifiers(line), LAMBDA w : w = term))

\* The lines of the occurrences of `term` in a file, one entry per
\* occurrence, in reading order.
RECURSIVE OccurrenceLines(_, _, _)
OccurrenceLines(lines, i, term) ==
    IF i > Len(lines) THEN <<>>
    ELSE [k \in 1..TimesOnLine(lines[i], term) |-> i] \o OccurrenceLines(lines, i + 1, term)

\* C27: a posting of exactTerms holds the line of every occurrence of its
\* token in its file, in reading order, the first occurrence first, and
\* occurrences is the length of positions and the number of occurrences.
C27_ExactPostingCountsOccurrences ==
    Indexed =>
        \A k \in 1..Len(fx.index.exactTerms) :
            LET e == fx.index.exactTerms[k]
                lines == OccurrenceLines(fx.files[FileIndex(e.file)], 1, e.term)
            IN /\ e.positions = lines
               /\ e.occurrences = Len(e.positions)
               /\ e.occurrences = Len(lines)

\* How often the line n is among the positions of a posting.
TimesListed(positions, n) == Len(SelectSeq(positions, LAMBDA q : q = n))

\* C28 as stated: a token that occurs twice on one line has the line once in
\* the positions of its exactTerms posting: no posting of exactTerms lists a
\* line twice.
C28_ExactLineListedOnce ==
    Indexed =>
        \A k \in 1..Len(fx.index.exactTerms) :
            \A n \in 1..Len(fx.files[FileIndex(fx.index.exactTerms[k].file)]) :
                TimesListed(fx.index.exactTerms[k].positions, n) <= 1

\* C28 amended: every occurrence the indexer reaches increments occurrences
\* and pushes its line, so occurrences is the length of positions, positions
\* is the lines of the first occurrences of the token in reading order, one
\* entry each, and a token twice on one line has that line listed twice.
C28_ExactLineListedPerOccurrence ==
    Indexed =>
        \A k \in 1..Len(fx.index.exactTerms) :
            LET e == fx.index.exactTerms[k]
                lines == OccurrenceLines(fx.files[FileIndex(e.file)], 1, e.term)
            IN /\ e.occurrences = Len(e.positions)
               /\ Len(e.positions) <= Len(lines)
               /\ e.positions = SubSeq(lines, 1, Len(e.positions))

\* C28 witness: the token foo is twice on line 1 of a.ts; its posting counts
\* two occurrences and lists line 1 twice.
C28_Witness ==
    /\ Indexed
    /\ fx.files[1][1] = FooFoo
    /\ \E k \in 1..Len(fx.index.exactTerms) :
          /\ fx.index.exactTerms[k].term = Foo
          /\ fx.index.exactTerms[k].file = FileNames[1]
          /\ fx.index.exactTerms[k].occurrences >= 2
          /\ TimesListed(fx.index.exactTerms[k].positions, 1) = 2

\* C29: every key of terms is lower-case and at least three characters long,
\* and no posting of terms lists a line twice.
C29_TermsKeysFoldedLinesOnce ==
    Indexed =>
        \A k \in 1..Len(fx.index.terms) :
            LET e == fx.index.terms[k]
            IN /\ e.term = ToLower(e.term)
               /\ Len(e.term) >= MinTermLen
               /\ \A n \in 1..Len(fx.files[FileIndex(e.file)]) : TimesListed(e.positions, n) <= 1

\* C29 witness: the index is built of a file whose first line holds foo
\* twice and whose second line holds fooBoo: terms has the key boo, and the
\* posting of foo met line 1 more than once.
C29_Witness ==
    /\ Indexed
    /\ fx.files[1] = <<FooFoo, FooBoo>>
    /\ \E k \in 1..Len(fx.index.terms) : fx.index.terms[k].term = ToLower(<<"B", "o", "o">>)
    /\ \E k \in 1..Len(fx.index.terms) :
          /\ fx.index.terms[k].term = Foo
          /\ fx.index.terms[k].occurrences > Len(fx.index.terms[k].positions)

\* The set of the entries of a sequence.
Range(q) == {q[k] : k \in 1..Len(q)}

\* The surviving tokens of the fixture: the identifiers the indexer does not skip.
SurvivingTokens ==
    {w \in UNION {UNION {Range(Identifiers(fx.files[f][i])) : i \in 1..Len(fx.files[f])} :
                      f \in 1..Len(fx.files)} :
        Len(w) >= MinTermLen /\ ToLower(w) \notin StopWords}

\* The decomposed sub-tokens of a token: the parts of the split that cuts it
\* (at upper-case letters, at underscores), folded, those of one or two
\* characters dropped; the token itself, folded, when neither split cuts it.
SubTokens(term) ==
    LET camel == SplitFrom("camel", term, 1, <<>>)
        snake == SplitFrom("snake", term, 1, <<>>)
        parts == (IF Len(camel) > 1 THEN Range(camel) ELSE {})
                     \cup (IF Len(snake) > 1 THEN Range(snake) ELSE {})
    IN IF Len(camel) > 1 \/ Len(snake) > 1
       THEN {ToLower(w) : w \in {q \in parts : Len(q) >= MinTermLen}}
       ELSE {ToLower(term)}

\* C30: the keys of terms are exactly the decomposed sub-tokens of the
\* surviving tokens: roo_foo adds roo and foo, fooBoo adds foo and boo, and
\* a token that decomposes into several parts adds no key for itself.
C30_TermsKeysAreSubTokens ==
    Indexed => Range(Keys(fx.index.terms)) = UNION {SubTokens(w) : w \in SurvivingTokens}

\* The keys of structure.directories.
DirectoryKeys == {sc.directories[k].dir : k \in 1..Len(sc.directories)}

\* C25 as stated: in a FileStructure scanFileStructure returns, every key of
\* files has all its ancestor directories, the repository root included, as
\* keys of directories.
C25_AncestorsWithRootAreKeys ==
    sc.pc = "returned" =>
        \A f \in sc.files : \A k \in 0..(Len(f) - 1) : SubSeq(f, 1, k) \in DirectoryKeys

\* C25 amended: every key of files has all its ancestor directories below
\* the repository root as keys of directories, and the root is never a key.
C25_AncestorsBelowRootAreKeys ==
    sc.pc = "returned" =>
        /\ \A f \in sc.files : \A k \in 1..(Len(f) - 1) : SubSeq(f, 1, k) \in DirectoryKeys
        /\ Root \notin DirectoryKeys

\* C25 witness: a returned FileStructure with the file src/lib/c.ts and no
\* file directly in src.
C25_Witness ==
    /\ sc.pc = "returned"
    /\ <<"src", "lib", "c.ts">> \in sc.files
    /\ <<"src", "b.ts">> \notin sc.files

\* C23: getEnhancedRepoStatus returns stats, packageInfo or codeInsights only
\* if isCacheValid answered true during the query; if it answered false the
\* object returned is the live status alone, with no error key; and the
\* query leaves the cache documents as they were and schedules no rebuild.
C23_CachedFieldsOnlyWhenValid ==
    sq.pc = "returned" =>
        /\ sq.fields \cap CachedFields /= {} => sq.checked /\ sq.valid
        /\ sq.checked /\ ~sq.valid => sq.fields = LiveFields
        /\ docs[sq.repo] = sq.docs0
        /\ \A b \in BuildIds : builds[b] = NoBuild

\* C23 witness: a status query has returned for a repository whose
\* metadata.json and codeStructure.json are complete but of another revision
\* than the working tree's, so that isCacheValid answered false.
C23_Witness ==
    /\ sq.pc = "returned"
    /\ sq.checked /\ ~sq.valid
    /\ sq.md.st = "ok"
    /\ docs[sq.repo]["codeStructure"].st = "ok"

\* The request names a category or a repository the registry lacks: the
\* category is given and unknown, or the repository is given and registered
\* in none of the categories the request is about.
NamesAbsent ==
    \/ rq.category /= NoArg /\ rq.category \notin Categories
    \/ /\ rq.repo /= NoArg
       /\ ~\E c \in Categories : (rq.category \in {NoArg, c}) /\ Registered(c, rq.repo)

\* C21: a search_code or repo_status request that names a category or a
\* repository absent from the registry is answered with an error.
C21_UnknownNamesAreErrors ==
    rq.pc = "answered" /\ NamesAbsent => rq.isError

\* C22: searchCodeWithCache reads, scans and schedules rebuilds only for
\* pairs of the registry, whatever the category and repository filters.
C22_OnlyRegisteredPairsTouched ==
    rq.tool = "search_code" => (rq.read \cup rq.scheduled) \subseteq RegisteredPairs

\* The parts a token decomposes into, as a sequence: the parts of each split
\* that cuts it, folded, those of one or two characters dropped; the token
\* itself, folded, when neither split cuts it.
DecomposedParts(term) ==
    LET camel == SplitFrom("camel", term, 1, <<>>)
        snake == SplitFrom("snake", term, 1, <<>>)
        parts == (IF Len(camel) > 1 THEN camel ELSE <<>>) \o (IF Len(snake) > 1 THEN snake ELSE <<>>)
        kept == SelectSeq(IF Len(parts) = 0 THEN <<term>> ELSE parts,
                          LAMBDA w : Len(w) >= MinTermLen)
    IN [k \in 1..Len(kept) |-> ToLower(kept[k])]

\* How many sub-token occurrences of `key` the identifiers ids[k..] hold.
RECURSIVE SubTokenCount(_, _, _)
SubTokenCount(ids, k, key) ==
    IF k > Len(ids) THEN 0
    ELSE (IF Len(ids[k]) < MinTermLen \/ ToLower(ids[k]) \in StopWords THEN 0
          ELSE Len(SelectSeq(DecomposedParts(ids[k]), LAMBDA w : w = key)))
         + SubTokenCount(ids, k + 1, key)

RECURSIVE SubTokenCountInFile(_, _, _)
SubTokenCountInFile(lines, i, key) ==
    IF i > Len(lines) THEN 0
    ELSE SubTokenCount(Identifiers(lines[i]), 1, key) + SubTokenCountInFile(lines, i + 1, key)

\* C38: the occurrences of a posting of terms is the number of sub-token
\* occurrences of its key in its file, a token counted once for each part it
\* decomposes into; a token without upper-case letter and underscore adds 1
\* to its own key per occurrence.
C38_TermsOccurrencesCountSubTokens ==
    Indexed =>
        \A k \in 1..Len(fx.index.terms) :
            LET e == fx.index.terms[k]
            IN e.occurrences = SubTokenCountInFile(fx.files[FileIndex(e.file)], 1, e.term)

\* The index has a posting of file f, in exactTerms or in terms.
HasPostingOf(f) ==
    \/ \E k \in 1..Len(fx.index.exactTerms) : fx.index.exactTerms[k].file = FileNames[f]
    \/ \E k \in 1..Len(fx.index.terms) : fx.index.terms[k].file = FileNames[f]

\* C31 as stated: a file of 1,048,576 bytes or more, or of an extension that
\* is not listed, has no posting in exactTerms or terms.
C31_IndexedOnlyUnderLimit ==
    Indexed =>
        \A f \in 1..Len(fx.files) :
            fx.infos[f].size >= MaxIndexedSize \/ ~ExtensionListed(fx.infos[f].ext)
                => ~HasPostingOf(f)

\* C31 amended: a file of more than 1,048,576 bytes, or of an extension that
\* is not listed, has no posting; a file of at most 1,048,576 bytes with a
\* listed extension and an identifier the indexer keeps has one.
C31_IndexedUpToLimit ==
    Indexed =>
        \A f \in 1..Len(fx.files) :
            HasPostingOf(f) <=>
                fx.infos[f].size <= MaxIndexedSize /\ ExtensionListed(fx.infos[f].ext)

\* C31 witness: of two files with a listed extension the one of exactly
\* 1,048,576 bytes is indexed and the one of 1,048,577 bytes is not.
C31_Witness ==
    /\ Indexed
    /\ fx.infos[1] = [size |-> MaxIndexedSize, ext |-> ".ts"] /\ HasPostingOf(1)
    /\ fx.infos[2] = [size |-> MaxIndexedSize + 1, ext |-> ".TS"] /\ ~HasPostingOf(2)

\* C32: a file that is gone when it is stat'ed is skipped and the scan still
\* returns a structure: scanFileStructure rejects only if a directory it has
\* to enumerate is gone.
C32_VanishedFileIsSkipped ==
    sc.pc = "rejected" =>
        \E k \in 1..Len(sc.listed) : ~(DirsOf({sc.listed[k]}) \subseteq sc.disk.dirs)

\* C36: a buildRepoCache run that returns null leaves the four documents of
\* the repository as they were before the run.  Here the first run to start
\* has returned null and no other run has started, so "before the run" is the
\* complete cache of the initial state.
ReturnedNull(b) == builds[b].pc \in {"failed", "unsaved"}

C36_FailedBuildLeavesDocuments ==
    \A b \in BuildIds :
        (ReturnedNull(b) /\ \A o \in BuildIds \ {b} : builds[o].pc = "timer")
            => docs[RepoOrder[1]] = WarmCache(0)

\* C35: a step of a search never changes a cache document, and a rebuild is
\* scheduled only by the step that ends the fallback scan of a repository
\* whose cache was found invalid, and only for that repository: the cached
\* path and the skip of an absent working tree schedule nothing.
C35_OnlyFallbackSchedules ==
    [][(s.pc /= "idle" /\ s' /= s) =>
          /\ docs' = docs
          /\ \A b \in BuildIds :
                (builds'[b].pc = "timer" /\ builds[b].pc /= "timer") =>
                    /\ s.pc = "scan"
                    /\ ~s.valid
                    /\ s.sel[s.i] \in s.fell
                    /\ builds'[b].repo = s.sel[s.i]]_vars

\* A search has returned matches from a valid cache and has skipped a
\* repository with no cache whose working tree is absent; nothing is scheduled.
C35_Witness ==
    /\ s.pc = "returned"
    /\ s.fell = {}
    /\ nextBuild = 1
    /\ \E k \in 1..Len(Answer) : Answer[k].via /= "scan"
    /\ \E k \in 1..Len(s.sel) :
          tree[s.sel[k]] = "deleted" /\ docs[s.sel[k]] = NoSave

\* C34: every match the cached search returns names a line of the file as it
\* is now, and that line matches: it contains the pattern on the exact path,
\* and a term the pattern matches on the fuzzy path; also when the file was
\* edited after the index was built.
LiveLine(g, m) == fx.files[FileIndex(g.file)][m.line]

LineMatches(g, m) ==
    IF g.via = "exact" THEN Includes(LiveLine(g, m), fx.pattern)
    ELSE \E k \in 1..Len(fx.index.terms) :
            /\ RegexTest(fx.pattern, fx.index.terms[k].term)
            /\ Includes(ToLower(LiveLine(g, m)), fx.index.terms[k].term)

C34_CachedMatchesAreLiveLines ==
    fx.pc = "cached" =>
        \A k \in 1..Len(fx.cached) :
            \A j \in 1..Len(fx.cached[k].matches) :
                LET g == fx.cached[k]
                    m == g.matches[j]
                IN /\ m.line \in 1..Len(fx.files[FileIndex(g.file)])
                   /\ LineMatches(g, m)

\* The brace depth after the first i characters that follow the class header,
\* and the positions of a `}` that brings it to 0.
Depth(content, i) ==
    Cardinality({k \in 1..i : content[k] = "{"}) - Cardinality({k \in 1..i : content[k] = "}"})

Closings(content) ==
    {i \in 1..Len(content) : content[i] = "}" /\ Depth(content, i) = 0}

FirstClosing(content) ==
    CHOOSE i \in Closings(content) : \A j \in Closings(content) : i <= j

\* C33: the class body runs from the class header to the `}` that returns the
\* brace depth to 0, and when the depth never returns to 0 it extends to the
\* end of the content.
C33_UnbalancedBodyRunsToEnd ==
    cb.pc = "extracted" =>
        cb.body = IF Closings(cb.content) = {} THEN cb.content
                  ELSE SubSeq(cb.content, 1, FirstClosing(cb.content) - 1)

\* C33 as the code has it: the class body runs from the class header up to the
\* `}` that returns the brace depth to 0, and when no `}` returns the depth to
\* 0 the class body is empty.
C33_UnbalancedBodyIsEmpty ==
    cb.pc = "extracted" =>
        cb.body = IF Closings(cb.content) = {} THEN <<>>
                  ELSE SubSeq(cb.content, 1, FirstClosing(cb.content) - 1)

\* A class whose braces open and never close, followed by more text, has been
\* analysed: its body is empty.
C33_Witness ==
    /\ cb.pc = "extracted"
    /\ Closings(cb.content) = {}
    /\ \E k \in 1..Len(cb.content) : cb.content[k] = "{"
    /\ cb.content[Len(cb.content)] = "m"
    /\ cb.body = <<>>

\* After a fallback search of the first repository, with the revision
\* unchanged and no rebuild failing, isCacheValid eventually answers true.
FallbackLeadsToValidCache ==
    (RepoOrder[1] \in s.fell) ~> IsCacheValid(RepoOrder[1])

\* C37: after a fallback search, with the revision unchanged and no rebuild
\* failing, the cache becomes valid and every later search takes the cached
\* path: from the moment isCacheValid answers true it answers true at every
\* later moment, so no later search is sent to the fallback.
C37_ValidCacheStaysValid ==
    [][IsCacheValid(RepoOrder[1]) => IsCacheValid(RepoOrder[1])']_vars

====
